---- MODULE Spec2Model ----
(***************************************************************************)
(* Model of the sync request coordinator                                   *)
(* (crates/breez-sdk/core/src/sdk/sync_coordinator.rs).                    *)
(*                                                                         *)
(* Every task makes one call, trigger_sync_and_wait or                     *)
(* trigger_sync_no_wait.  Tasks are cooperative: a step of a task runs     *)
(* the code from one await point to the next.  The two critical sections   *)
(* of the Mutex<Inner> contain no await point, so each is part of one      *)
(* step: the mutex is taken and released within it.  The subscriber of     *)
(* the broadcast channel is the environment: it may subscribe,             *)
(* unsubscribe, answer a request or drop its reply sender.  A future of    *)
(* trigger_sync_and_wait may be dropped at an await point.  Sending on a   *)
(* oneshot channel and the resumption of the task that awaits its          *)
(* receiver are one step: the receiver does nothing else in between.       *)
(***************************************************************************)
EXTENDS Integers, Sequences, FiniteSets, TLC

\* ---------------------------------------------------------------- bounds
NumTasks == 2
MaxCancel == 1
MaxQueue == 3
U64_MAX == 65535
MaxConversions == 2
MaxTransfers == 3
MaxClaims == 2
NumHandlers == 2
MaxCalls == 3

\* HTLC_DATA_REQUIRED_SINCE, models/adaptors.rs line 22, in seconds.
HTLC_DATA_REQUIRED_SINCE == 1769904000

\* Option::None.
None == <<>>

Tasks == 1..NumTasks
SyncTypes == {"A", "B"}
NoTask == 0

\* Result<(), SdkError> values.  ErrSync stands for an error the subscriber
\* sent as the reply; the three others are the SdkError::Generic values the
\* coordinator itself builds.
ErrPublish == "ErrPublish"
ErrReplyClosed == "ErrReplyClosed"
ErrCompletionClosed == "ErrCompletionClosed"
SubscriberReplies == {"Ok", "ErrSync"}
GenericErrors == {ErrPublish, ErrReplyClosed, ErrCompletionClosed}

VARIABLES
    sync_running,   \* Inner.sync_running
    waiters,        \* Inner.waiters: sequence of Waiter
    subscribed,     \* the broadcast channel has a receiver
    pending,        \* SyncRequests in the hands of the subscriber
    pc,             \* per task: position in its call
    call,           \* per task: arguments of its call
    loc,            \* per task: locals of run_sync_loop
    rx,             \* per task: value waiting in the oneshot receiver of
                    \*   trigger_sync_and_wait
    ret,            \* per task: the value the call returned
    rounds,         \* history: one record per batch the run loop formed
    regAt,          \* history: per task, rounds published when it registered
    midRound,       \* history: per task, a round was in flight when it registered
    notified,       \* history: per task, number of values sent to its sender
    cancels,        \* number of dropped futures so far
    lock,           \* the task that holds the MutexGuard of inner, or NoTask
    droppedDriver,  \* history: a future was dropped while it drove the run loop
    transfer,       \* reconciler: the WalletTransfer given to try_from
    lightning,      \* reconciler: the arguments given to from_lightning
    details,        \* reconciler: the SparkHtlcDetails behind a &mut
    payment,        \* reconciler: the Result of the last conversion
    conversions,    \* reconciler: number of conversions of the transfer
    max_concurrent_claims,  \* claim trigger: Config::max_concurrent_claims
    slots,          \* claim trigger: free claim slots of the gate
    claim,          \* claim trigger: per inbound transfer, where its claim is
    lnurl_server_client,    \* lightning address: a server client is configured
    cache,          \* lightning address: the cached item, Option<Option<info>>
    server,         \* lightning address: the address the LNURL server holds
    last,           \* lightning address: the call made last, its outcome,
                    \*   and the number of recoveries that succeeded so far
    invoices,       \* invoice paid: the invoices of the repository, by
                    \*   payment hash
    newly_paid,     \* invoice paid: the NewlyPaid entries of the repository
    triggers,       \* invoice paid: number of values sent on the watch channel
    reads,          \* invoice paid, history: number of repository reads
    writes,         \* invoice paid, history: the preimages stored, in order
    now,            \* invoice paid: the clock of now_millis
    hpc,            \* invoice paid: per handler, position in its call
    hloc,           \* invoice paid: per handler, arguments and locals of its
                    \*   call, and the number of the call
    hret,           \* invoice paid: per handler, the value its call returned
    ncalls          \* invoice paid: number of calls made so far

\* The state of the coordinator, and the state of the reconciler
\* (models/adaptors.rs), which share nothing.
cvars == <<sync_running, waiters, subscribed, pending, pc, call,
           loc, rx, ret, rounds, regAt, midRound, notified, cancels, lock,
           droppedDriver>>
rvars == <<transfer, lightning, details, payment, conversions>>
\* The state of the claim trigger and of the lightning address calls
\* (sdk/lightning_address.rs).
gvars == <<max_concurrent_claims, slots, claim>>
avars == <<lnurl_server_client, cache, server, last>>
\* The state of handle_invoice_paid and its repository
\* (lnurl/src/invoice_paid.rs).
ivars == <<invoices, newly_paid, triggers, reads, writes, now, hpc, hloc,
           hret, ncalls>>
evars == <<rvars, gvars, avars, ivars>>
vars == <<sync_running, waiters, subscribed, pending, pc, call,
          loc, rx, ret, rounds, regAt, midRound, notified, cancels, lock,
          droppedDriver,
          transfer, lightning, details, payment, conversions,
          max_concurrent_claims, slots, claim,
          lnurl_server_client, cache, server, last,
          invoices, newly_paid, triggers, reads, writes, now, hpc, hloc,
          hret, ncalls>>

\* No conversion has been asked for.
NoReconciliation ==
    /\ transfer = None
    /\ lightning = None
    /\ details = None
    /\ payment = None
    /\ conversions = 0

\* The claim trigger and the lightning address calls are not used.
Transfers == 1..MaxTransfers
NoClaiming ==
    /\ max_concurrent_claims = 1
    /\ slots = 1
    /\ claim = [x \in Transfers |-> "absent"]

NoLast == [op |-> "none", contacted |-> FALSE,
           result |-> [ok |-> FALSE, error |-> "none"], recoveries |-> 0]
NoAddress ==
    /\ lnurl_server_client = FALSE
    /\ cache = None
    /\ server = None
    /\ last = NoLast

\* No invoice has been created and no handler has been called.
Handlers == 1..NumHandlers
NoHandlerLoc == [payment_hash |-> "none", preimage |-> <<>>, now |-> 0,
                 invoice |-> <<>>, call_no |-> 0]
NoHandlerRet == [ok |-> FALSE, error |-> "none"]
HandlersIdle ==
    /\ hpc = [i \in Handlers |-> "idle"]
    /\ hloc = [i \in Handlers |-> NoHandlerLoc]
    /\ hret = [i \in Handlers |-> NoHandlerRet]
    /\ ncalls = 0
NoInvoices ==
    /\ invoices = <<>>
    /\ newly_paid = <<>>
    /\ triggers = 0
    /\ reads = 0
    /\ writes = <<>>
    /\ now = 0
    /\ HandlersIdle

NoCall == [kind |-> "none", sync_type |-> "none", force |-> FALSE]
NoLoc == [sync_type |-> "none", force |-> FALSE, senders |-> <<>>, round |-> 0]
NoRx == [val |-> "none", round |-> 0]
NoRet == [val |-> "none", round |-> 0]

\* ------------------------------------------------------- struct Waiter
\* sender is the task awaiting the oneshot receiver, NoTask for None
\* (fire-and-forget).  by is history only: the number of the registration
\* in the order of arrival, which in Spec is the number of the task.
Waiter(t, ty, f, s) == [sync_type |-> ty, force |-> f, sender |-> s, by |-> t]

\* ------------------------------------------- run_sync_loop, lines 118-136
\* Line 119 with a slip: the last waiter gives the batch type.
batch_type_last(ws) == ws[Len(ws)].sync_type

\* Line 119: the first waiter's sync_type is the batch type.
batch_type(ws) == ws[1].sync_type

\* The test of line 125 with a slip: every queued waiter is taken.
IsBatchAny(ws, w) == TRUE

\* The test of line 125 with a slip: only the first waiter is taken.
IsBatchFirst(ws, w) == w = ws[1]

\* The test of line 125 with a slip: the drain stops at the first waiter of
\* another type, so only the leading run of the batch type is taken.
IsBatchRun(ws, w) ==
    \E i \in 1..Len(ws) :
        /\ ws[i] = w
        /\ \A j \in 1..i : ws[j].sync_type = batch_type(ws)

\* Line 125: the waiter belongs to the batch.
IsBatch(ws, w) == w.sync_type = batch_type(ws)

\* Line 126 with a slip: the flag is OR-ed only for waiters with a sender.
batch_force_senders(ws) ==
    \E i \in 1..Len(ws) :
        IsBatch(ws, ws[i]) /\ ws[i].sender # NoTask /\ ws[i].force

\* Lines 120, 126: batch_force |= waiter.force over the batch.
batch_force(ws) ==
    \E i \in 1..Len(ws) : IsBatch(ws, ws[i]) /\ ws[i].force

BatchWaiters(ws) == SelectSeq(ws, LAMBDA w : IsBatch(ws, w))

batch_senders(ws) ==
    LET withSender == SelectSeq(BatchWaiters(ws), LAMBDA w : w.sender # NoTask)
    IN  [i \in 1..Len(withSender) |-> withSender[i].sender]

\* Lines 131, 135 with a slip: only the first waiter leaves the queue.
remaining_tail(ws) == Tail(ws)

\* Lines 130-132 with a slip: the waiters of other types are not pushed on
\* remaining, and are lost.
remaining_none(ws) == <<>>

\* Lines 122, 131, 135: the waiters of other types stay, in order.
remaining(ws) == SelectSeq(ws, LAMBDA w : ~IsBatch(ws, w))

Range(s) == {s[i] : i \in 1..Len(s)}

Init ==
    /\ sync_running = FALSE
    /\ waiters = <<>>
    /\ subscribed = FALSE
    /\ pending = {}
    /\ pc = [t \in Tasks |-> "idle"]
    /\ call = [t \in Tasks |-> NoCall]
    /\ loc = [t \in Tasks |-> NoLoc]
    /\ rx = [t \in Tasks |-> NoRx]
    /\ ret = [t \in Tasks |-> NoRet]
    /\ rounds = <<>>
    /\ regAt = [t \in Tasks |-> 0]
    /\ midRound = [t \in Tasks |-> FALSE]
    /\ notified = [t \in Tasks |-> 0]
    /\ cancels = 0
    /\ lock = NoTask
    /\ droppedDriver = FALSE
    /\ NoReconciliation
    /\ NoClaiming
    /\ NoAddress
    /\ NoInvoices

\* --------------------------------------------------------------- callers
\* A round is in flight: its driver awaits the reply.
InFlight == \E d \in Tasks : pc[d] = "await_reply"

\* Where a call c goes once it does not drive the run loop:
\* trigger_sync_and_wait awaits rx (line 67); trigger_sync_no_wait has
\* returned.
NotRunning(c) == IF c.kind = "wait" THEN "rx_await" ELSE "done"

\* add_waiter with a slip: a call of the type of the round in flight joins
\* the batch of that round instead of the queue.
add_waiter_joining(t, c) ==
    /\ LET ds == {d \in Tasks : /\ pc[d] = "await_reply"
                                /\ loc[d].sync_type = c.sync_type
                                /\ c.kind = "wait"}
       IN  IF ds = {}
           THEN /\ waiters' = Append(waiters,
                        Waiter(t, c.sync_type, c.force,
                               IF c.kind = "wait" THEN t ELSE NoTask))
                /\ loc' = loc
           ELSE /\ waiters' = waiters
                /\ loc' = [d \in Tasks |->
                             IF d \in ds
                             THEN [loc[d] EXCEPT !.senders = Append(@, t)]
                             ELSE loc[d]]
    /\ lock = NoTask
    /\ lock' = NoTask
    /\ sync_running' = TRUE
    /\ call' = [call EXCEPT ![t] = c]
    /\ pc' = [pc EXCEPT ![t] = IF sync_running THEN NotRunning(c) ELSE "loop"]
    /\ regAt' = [regAt EXCEPT ![t] = Len(rounds)]
    /\ midRound' = [midRound EXCEPT ![t] = InFlight]
    /\ UNCHANGED <<subscribed, pending, rx, ret, rounds, notified, cancels>>
    /\ UNCHANGED <<droppedDriver, evars>>

\* add_waiter with a slip: should_run is true whatever sync_running is.
add_waiter_always_running(t, c) ==
    /\ waiters' = Append(waiters,
            Waiter(t, c.sync_type, c.force,
                   IF c.kind = "wait" THEN t ELSE NoTask))
    /\ lock = NoTask
    /\ lock' = NoTask
    /\ sync_running' = TRUE
    /\ call' = [call EXCEPT ![t] = c]
    /\ pc' = [pc EXCEPT ![t] = "loop"]
    /\ regAt' = [regAt EXCEPT ![t] = Len(rounds)]
    /\ midRound' = [midRound EXCEPT ![t] = InFlight]
    /\ UNCHANGED <<subscribed, pending, loc, rx, ret, rounds,
                   notified, cancels>>
    /\ UNCHANGED <<droppedDriver, evars>>

\* add_waiter, lines 92-104, for the call c of task t, and the branch on
\* should_run in the caller (lines 63-65, 77-82): the caller reaches the
\* lock().await of run_sync_loop (line 112) or rx.await.  The task spawned
\* by trigger_sync_no_wait is carried by the calling task's pc.
add_waiter(t, c) ==
    /\ waiters' = Append(waiters,
            Waiter(t, c.sync_type, c.force,
                   IF c.kind = "wait" THEN t ELSE NoTask))
    /\ lock = NoTask
    /\ lock' = NoTask
    /\ sync_running' = TRUE
    /\ call' = [call EXCEPT ![t] = c]
    /\ pc' = [pc EXCEPT ![t] = IF sync_running THEN NotRunning(c) ELSE "loop"]
    /\ regAt' = [regAt EXCEPT ![t] = Len(rounds)]
    /\ midRound' = [midRound EXCEPT ![t] = InFlight]
    /\ UNCHANGED <<subscribed, pending, loc, rx, ret, rounds,
                   notified, cancels>>
    /\ UNCHANGED <<droppedDriver, evars>>

\* trigger_sync_and_wait, lines 54-65: the oneshot channel is created, the
\* waiter is registered, and the call reaches its first await point after
\* add_waiter.  A call does nothing between its start and add_waiter.
trigger_sync_and_wait(t, ty, f) ==
    /\ pc[t] = "idle"
    /\ add_waiter(t, [kind |-> "wait", sync_type |-> ty, force |-> f])

\* trigger_sync_no_wait, lines 74-82.
trigger_sync_no_wait(t, ty, f) ==
    /\ pc[t] = "idle"
    /\ add_waiter(t, [kind |-> "no_wait", sync_type |-> ty, force |-> f])

\* trigger_sync_and_wait in two steps, for calls that start together.
\* Lines 54-61: the call starts and reaches the lock().await of add_waiter
\* (line 92).
trigger_sync_and_wait_start(t, ty, f) ==
    /\ pc[t] = "idle"
    /\ pc' = [pc EXCEPT ![t] = "called"]
    /\ call' = [call EXCEPT ![t] = [kind |-> "wait", sync_type |-> ty, force |-> f]]
    /\ UNCHANGED <<sync_running, waiters, subscribed, pending,
                   loc, rx, ret, rounds, regAt, midRound, notified, cancels>>
    /\ UNCHANGED <<lock, droppedDriver, evars>>

\* Lines 61-65: the call gets the mutex and registers.  The mutex is fair:
\* calls get it in the order they asked for it.
trigger_sync_and_wait_locked(t) ==
    /\ pc[t] = "called"
    /\ \A u \in Tasks : u < t => pc[u] # "called"
    /\ add_waiter(t, call[t])

\* ------------------------------------------------------------- run loop
\* trigger_sync_and_wait, lines 67-68: what rx.await gives for the content
\* v of the oneshot channel.
Received(v) ==
    IF v.val = "closed" THEN [val |-> ErrCompletionClosed, round |-> v.round]
    ELSE v

\* Lines 113-116 with a slip: the loop returns and clears sync_running
\* without the test on the queue.
run_sync_loop_exit_unchecked(t) ==
    /\ pc[t] = "loop"
    /\ lock = NoTask
    /\ lock' = NoTask
    /\ sync_running' = FALSE
    /\ IF call[t].kind = "wait" /\ rx[t] # NoRx
       THEN /\ ret' = [ret EXCEPT ![t] = Received(rx[t])]
            /\ rx' = [rx EXCEPT ![t] = NoRx]
            /\ pc' = [pc EXCEPT ![t] = "done"]
       ELSE /\ pc' = [pc EXCEPT ![t] = NotRunning(call[t])]
            /\ UNCHANGED <<ret, rx>>
    /\ UNCHANGED <<waiters, subscribed, pending, call, loc,
                   rounds, regAt, midRound, notified, cancels>>
    /\ UNCHANGED <<droppedDriver, evars>>

\* run_sync_loop, lines 112-116: the queue is empty, the loop returns; a
\* trigger_sync_and_wait goes on to rx.await (lines 67-68), which is ready
\* when its sender was used or dropped.
run_sync_loop_exit(t) ==
    /\ pc[t] = "loop"
    /\ lock = NoTask
    /\ waiters = <<>>
    /\ lock' = NoTask
    /\ sync_running' = FALSE
    /\ IF call[t].kind = "wait" /\ rx[t] # NoRx
       THEN /\ ret' = [ret EXCEPT ![t] = Received(rx[t])]
            /\ rx' = [rx EXCEPT ![t] = NoRx]
            /\ pc' = [pc EXCEPT ![t] = "done"]
       ELSE /\ pc' = [pc EXCEPT ![t] = NotRunning(call[t])]
            /\ UNCHANGED <<ret, rx>>
    /\ UNCHANGED <<waiters, subscribed, pending, call, loc,
                   rounds, regAt, midRound, notified, cancels>>
    /\ UNCHANGED <<droppedDriver, evars>>

\* The locals (sync_type, force, batch_senders) of one loop iteration.
Batch(ws, n) ==
    [sync_type |-> batch_type(ws), force |-> batch_force(ws),
     senders |-> batch_senders(ws), round |-> n]

\* History record of the batch l formed by a step from queue ws to queue
\* ws2: the request published, and the waiters that left the queue.
RoundOf(ws, ws2, l) ==
    [sync_type |-> l.sync_type, force |-> l.force,
     batch |-> SelectSeq(ws, LAMBDA w : \A j \in 1..Len(ws2) : ws2[j].by # w.by),
     outcome |-> "none"]

\* The loop of lines 149-151 with a slip: it stops after the first sender.
ResumedFirst(l) ==
    {s \in Range(l.senders) : s = l.senders[1] /\ pc[s] = "rx_await"}

\* The tasks whose rx.await is resumed by a value sent to the senders of l.
Resumed(l) == {s \in Range(l.senders) : pc[s] = "rx_await"}

\* The tasks that hold the receiver of a sender of l and are not at rx.await.
Buffered(l) == {s \in Range(l.senders) : pc[s] \in {"loop", "await_reply"}}

\* run_sync_loop, lines 148-151: result.clone() is sent to every sender of
\* the batch l (v is the value with its round); a send to a dropped receiver
\* fails and is ignored.  Task t, which sends, is back at line 112.
\* NotifyPc_returning is NotifyPc with a slip: a driver whose own sender is
\* in the batch leaves the loop for its rx.await.
NotifyPc_returning(t, l) ==
    [s \in Tasks |-> IF s \in Resumed(l) THEN "done"
                     ELSE IF s = t /\ t \in Range(l.senders) THEN "done"
                     ELSE IF s = t THEN "loop" ELSE pc[s]]

NotifyPc(t, l) ==
    [s \in Tasks |-> IF s \in Resumed(l) THEN "done"
                     ELSE IF s = t THEN "loop" ELSE pc[s]]

NotifyRet(l, v) ==
    [s \in Tasks |-> IF s \in Resumed(l) THEN Received(v) ELSE ret[s]]

NotifyRx(l, v) ==
    [s \in Tasks |-> IF s \in Buffered(l) /\ rx[s] = NoRx THEN v ELSE rx[s]]

Sends(l) ==
    [s \in Tasks |-> IF s \in Range(l.senders) THEN notified[s] + 1 ELSE notified[s]]

\* Lines 146-151 with a slip: the waiters of a batch whose round failed are
\* pushed back on the queue, to be tried again.
queue_after_retrying(ws, l, result) ==
    IF result = "Ok" THEN ws
    ELSE ws \o [i \in 1..Len(l.senders) |->
                  Waiter(l.senders[i], l.sync_type, l.force, l.senders[i])]

\* run_sync_loop, lines 146-151: the result of the round l, whatever it is,
\* is sent to the senders of the batch; the queue ws is not touched.
queue_after(ws, l, result) == ws

\* The block of lines 111-137 with a slip: the MutexGuard of task t is bound
\* outside the block and lives on while run_single_sync is awaited.
guard_kept(t) == t

\* run_sync_loop, line 137: the block that holds the MutexGuard `inner` ends
\* before run_single_sync is called; the mutex is free again.
guard_dropped(t) == NoTask

\* run_sync_loop, lines 112-146, and run_single_sync, lines 157-168: the
\* mutex is taken, the batch is taken out of the queue and its SyncRequest is handed to the
\* broadcast sender.  With a receiver the task reaches reply_rx.await;
\* without one send fails, the batch is notified of the error (lines
\* 148-151) and the task is back at line 112.
form_batch(t) ==
    /\ pc[t] = "loop"
    /\ lock = NoTask
    /\ waiters # <<>>
    /\ LET l == Batch(waiters, Len(rounds) + 1)
           r == RoundOf(waiters, remaining(waiters), l)
           v == [val |-> ErrPublish, round |-> l.round]
       IN  /\ IF subscribed
              THEN /\ waiters' = remaining(waiters)
                   /\ pending' = pending \cup
                          {[driver |-> t, round |-> l.round,
                            sync_type |-> l.sync_type, force |-> l.force]}
                   /\ loc' = [loc EXCEPT ![t] = l]
                   /\ pc' = [pc EXCEPT ![t] = "await_reply"]
                   /\ rounds' = Append(rounds, r)
                   /\ lock' = guard_dropped(t)
                   /\ UNCHANGED <<rx, ret, notified>>
              ELSE /\ waiters' = queue_after(remaining(waiters), l, ErrPublish)
                   /\ rounds' = Append(rounds, [r EXCEPT !.outcome = ErrPublish])
                   /\ pc' = NotifyPc(t, l)
                   /\ ret' = NotifyRet(l, v)
                   /\ rx' = NotifyRx(l, v)
                   /\ notified' = Sends(l)
                   /\ lock' = NoTask
                   /\ UNCHANGED <<pending, loc>>
    /\ UNCHANGED <<sync_running, subscribed, call, regAt, midRound, cancels>>
    /\ UNCHANGED <<droppedDriver, evars>>

\* The await points of a registered trigger_sync_and_wait: lock().await in
\* run_sync_loop (line 112), reply_rx.await (line 168), rx.await (line 67).
AwaitPoints == {"loop", "await_reply", "rx_await"}

\* The future of trigger_sync_and_wait is dropped at an await point: its
\* locals are dropped with it, that is rx, and, when the task drives the run
\* loop, reply_rx and the batch_senders it holds, which closes the channels
\* of the other waiters of the batch.
cancel(t) ==
    /\ call[t].kind = "wait"
    /\ pc[t] \in AwaitPoints
    /\ cancels < MaxCancel
    /\ cancels' = cancels + 1
    /\ droppedDriver' = (droppedDriver \/ pc[t] \in {"loop", "await_reply"})
    /\ LET l == loc[t]
           v == [val |-> "closed", round |-> l.round]
       IN  /\ pc' = [NotifyPc(t, l) EXCEPT ![t] = "cancelled"]
           /\ ret' = [NotifyRet(l, v) EXCEPT ![t] = ret[t]]
           /\ rx' = [NotifyRx(l, v) EXCEPT ![t] = NoRx]
    /\ loc' = [loc EXCEPT ![t] = NoLoc]
    /\ UNCHANGED <<sync_running, waiters, subscribed, pending, call,
                   rounds, regAt, midRound, notified>>
    /\ UNCHANGED <<lock, evars>>

\* ------------------------------------------------------------ subscriber
\* subscribe, lines 46-48.
subscribe ==
    /\ ~subscribed
    /\ subscribed' = TRUE
    /\ UNCHANGED <<sync_running, waiters, pending, pc, call, loc,
                   rx, ret, rounds, regAt, midRound, notified, cancels>>
    /\ UNCHANGED <<lock, droppedDriver, evars>>

\* The task that awaits the reply of req: reply_rx is alive.
Awaits(t, req) ==
    /\ req.driver = t
    /\ pc[t] = "await_reply"
    /\ loc[t].round = req.round

\* run_single_sync, lines 168-170, and run_sync_loop, lines 148-151: the
\* reply of req is settled (a value was sent, or the reply sender was
\* dropped and reply_rx.await gives a RecvError), the driver notifies the
\* batch, pushes nothing back on the queue and is back at line 112.  Nothing happens when reply_rx was
\* dropped before.
Settle(req, result) ==
    LET t == req.driver
        l == loc[t]
        v == [val |-> result, round |-> l.round]
    IN  IF Awaits(t, req)
        THEN /\ waiters' = queue_after(waiters, l, result)
             /\ pc' = NotifyPc(t, l)
             /\ ret' = NotifyRet(l, v)
             /\ rx' = NotifyRx(l, v)
             /\ notified' = Sends(l)
             /\ loc' = [loc EXCEPT ![t] = NoLoc]
             /\ rounds' = [rounds EXCEPT ![l.round].outcome = result]
        ELSE UNCHANGED <<waiters, pc, ret, rx, notified, loc, rounds>>

\* The subscriber takes the reply sender of a request (SyncRequest.reply,
\* line 160) and sends v.
sub_reply(req, v) ==
    /\ req \in pending
    /\ pending' = pending \ {req}
    /\ Settle(req, v)
    /\ UNCHANGED <<sync_running, subscribed, call,
                   regAt, midRound, cancels>>
    /\ UNCHANGED <<lock, droppedDriver, evars>>

\* The subscriber drops a request without sending a reply.
sub_drop(req) ==
    /\ req \in pending
    /\ pending' = pending \ {req}
    /\ Settle(req, ErrReplyClosed)
    /\ UNCHANGED <<sync_running, subscribed, call,
                   regAt, midRound, cancels>>
    /\ UNCHANGED <<lock, droppedDriver, evars>>

\* The subscriber drops its broadcast receiver while it holds no request.
unsubscribe ==
    /\ subscribed
    /\ pending = {}
    /\ subscribed' = FALSE
    /\ UNCHANGED <<sync_running, waiters, pending, pc, call, loc,
                   rx, ret, rounds, regAt, midRound, notified, cancels>>
    /\ UNCHANGED <<lock, droppedDriver, evars>>

\* Tasks and sync types are interchangeable: tasks are numbered in the order
\* they register, and the first call is for type "A".  No branch of the
\* code depends on force, which is only OR-ed into the request (lines 120,
\* 126): the calls of Spec pass force = false, and SpecBatch below takes the
\* flag of every queued waiter over BOOLEAN.
NextCaller(t) == \A u \in Tasks : u < t => pc[u] # "idle"

TypesOf(t) == IF t = 1 THEN {"A"} ELSE SyncTypes

Next ==
    \/ \E t \in Tasks, ty \in SyncTypes :
          NextCaller(t) /\ ty \in TypesOf(t) /\ trigger_sync_and_wait(t, ty, FALSE)
    \/ \E t \in Tasks, ty \in SyncTypes :
          NextCaller(t) /\ ty \in TypesOf(t) /\ trigger_sync_no_wait(t, ty, FALSE)
    \/ \E t \in Tasks : run_sync_loop_exit(t)
    \/ \E t \in Tasks : form_batch(t)
    \/ \E t \in Tasks : cancel(t)
    \/ subscribe
    \/ unsubscribe
    \/ \E req \in pending, v \in SubscriberReplies : sub_reply(req, v)
    \/ \E req \in pending : sub_drop(req)

Spec == Init /\ [][Next]_vars

\* Calls of trigger_sync_and_wait(T, false) made while no sync is running
\* and before any of them has registered.
NextCoalesce ==
    \/ \E t \in Tasks :
          /\ ~sync_running
          /\ rounds = <<>>
          /\ NextCaller(t)
          /\ trigger_sync_and_wait_start(t, "A", FALSE)
    \/ \E t \in Tasks : trigger_sync_and_wait_locked(t)
    \/ \E t \in Tasks : run_sync_loop_exit(t)
    \/ \E t \in Tasks : form_batch(t)
    \/ \E t \in Tasks : cancel(t)
    \/ subscribe
    \/ unsubscribe
    \/ \E req \in pending, v \in SubscriberReplies : sub_reply(req, v)
    \/ \E req \in pending : sub_drop(req)

SpecCoalesce == Init /\ [][NextCoalesce]_vars

\* ----------------------------------------------------- fair scheduling
\* No future is dropped.  The runtime polls every task that is ready: a
\* task at line 112 gets the mutex and goes on.  The subscriber answers or
\* drops every request it holds.  Calls are made or not, each task at most
\* one, and the subscriber comes and goes as it likes.
NextLive ==
    \/ \E t \in Tasks, ty \in SyncTypes :
          NextCaller(t) /\ ty \in TypesOf(t) /\ trigger_sync_and_wait(t, ty, FALSE)
    \/ \E t \in Tasks, ty \in SyncTypes :
          NextCaller(t) /\ ty \in TypesOf(t) /\ trigger_sync_no_wait(t, ty, FALSE)
    \/ \E t \in Tasks : run_sync_loop_exit(t)
    \/ \E t \in Tasks : form_batch(t)
    \/ subscribe
    \/ unsubscribe
    \/ \E req \in pending, v \in SubscriberReplies : sub_reply(req, v)
    \/ \E req \in pending : sub_drop(req)

Answered ==
    \E req \in pending :
        sub_drop(req) \/ \E v \in SubscriberReplies : sub_reply(req, v)

Fairness ==
    /\ \A t \in Tasks : WF_vars(run_sync_loop_exit(t))
    /\ \A t \in Tasks : WF_vars(form_batch(t))
    /\ WF_vars(Answered)

SpecLive == Init /\ [][NextLive]_vars /\ Fairness

\* -------------------------------------------------- batches of any queue
\* The queues of up to MaxQueue waiters that can have registered, in this
\* order, while the first round of a spawned driver (task 1) is in flight:
\* fire-and-forget requests of any callers and waiters of the other tasks.
Entries(i) ==
    {Waiter(i, ty, f, s) : ty \in SyncTypes, f \in BOOLEAN,
                           s \in ({NoTask} \cup (Tasks \ {1}))}

RECURSIVE QueuesOf(_)
QueuesOf(n) ==
    IF n = 0 THEN {<<>>}
    ELSE {Append(q, e) :
            q \in QueuesOf(n - 1),
            e \in Entries(n + 1)}

\* As in Spec the waiting tasks are numbered in the order they registered.
SendersInOrder(q) ==
    LET withSender == SelectSeq(q, LAMBDA w : w.sender # NoTask)
    IN  \A i \in 1..Len(withSender) : withSender[i].sender = i + 1

Queues == {q \in UNION {QueuesOf(n) : n \in 0..MaxQueue} : SendersInOrder(q)}

EntryOf(q, t) == CHOOSE i \in 1..Len(q) : q[i].sender = t
Queued(q, t) == \E i \in 1..Len(q) : q[i].sender = t

InitBatch ==
    \E q \in Queues :
        /\ waiters = q
        /\ sync_running = TRUE
        /\ subscribed = TRUE
        /\ pending = {[driver |-> 1, round |-> 1, sync_type |-> "A", force |-> FALSE]}
        /\ pc = [t \in Tasks |-> IF t = 1 THEN "await_reply"
                                 ELSE IF Queued(q, t) THEN "rx_await" ELSE "idle"]
        /\ call = [t \in Tasks |->
                    IF t = 1
                    THEN [kind |-> "no_wait", sync_type |-> "A", force |-> FALSE]
                    ELSE IF Queued(q, t)
                         THEN [kind |-> "wait",
                               sync_type |-> q[EntryOf(q, t)].sync_type,
                               force |-> q[EntryOf(q, t)].force]
                         ELSE NoCall]
        /\ loc = [t \in Tasks |->
                    IF t = 1 THEN [sync_type |-> "A", force |-> FALSE,
                                   senders |-> <<>>, round |-> 1]
                    ELSE NoLoc]
        /\ rx = [t \in Tasks |-> NoRx]
        /\ ret = [t \in Tasks |-> NoRet]
        /\ rounds = << [sync_type |-> "A", force |-> FALSE,
                        batch |-> <<Waiter(1, "A", FALSE, NoTask)>>,
                        outcome |-> "none"] >>
        /\ regAt = [t \in Tasks |-> IF Queued(q, t) THEN 1 ELSE 0]
        /\ midRound = [t \in Tasks |-> Queued(q, t)]
        /\ notified = [t \in Tasks |-> 0]
        /\ cancels = 0
        /\ lock = NoTask
        /\ droppedDriver = FALSE
        /\ NoReconciliation
        /\ NoClaiming
        /\ NoAddress
        /\ NoInvoices

NextBatch ==
    \/ \E t \in Tasks : run_sync_loop_exit(t)
    \/ \E t \in Tasks : form_batch(t)
    \/ \E t \in Tasks : cancel(t)
    \/ subscribe
    \/ unsubscribe
    \/ \E req \in pending, v \in SubscriberReplies : sub_reply(req, v)
    \/ \E req \in pending : sub_drop(req)

SpecBatch == InitBatch /\ [][NextBatch]_vars

\* ========================================= reconciler (models/adaptors.rs)
\* The conversions are pure functions of their arguments; they are
\* operators here, and the actions further down apply them to inputs drawn
\* from bounded sets.  Option<T> is a sequence of length 0 or 1.  u64 is
\* U64_MAX + 1 values wide.  A SystemTime is a number of whole seconds after
\* UNIX_EPOCH, negative before it.
Some(x) == <<x>>
is_some(o) == o # None
is_none(o) == o = None
unwrap_or(o, d) == IF o = None THEN d ELSE o[1]

Ok(v) == [ok |-> TRUE, value |-> v]
Err(e) == [ok |-> FALSE, error |-> e]

\* u64::saturating_sub with a slip: the difference wraps around.
wrapping_sub(a, b) == (a - b) % (U64_MAX + 1)

\* u64::saturating_sub (lines 256, 264, 271).
saturating_sub(a, b) == IF b > a THEN 0 ELSE a - b

\* u64::saturating_add (line 263).
saturating_add(a, b) == IF a + b > U64_MAX THEN U64_MAX ELSE a + b

\* CurrencyAmount::as_sats (lines 255-271): the value of an amount in
\* satoshis, an error for an amount in another unit.
as_sats(a) == IF a.original_unit = "SATOSHI" THEN Some(a.original_value) ELSE None

\* input::parse_invoice (lines 134, 164, 342): the one well-formed invoice
\* of the model, and what it holds.
parse_invoice(encoded) ==
    IF encoded = "lnbc1valid"
    THEN Some([description |-> Some("coffee"), payee_pubkey |-> "02ab",
               payment_hash |-> "c3"])
    ELSE None

\* parse_spark_address (line 100): a Spark invoice, a Spark address that is
\* no invoice, or nothing.
parse_spark_address(s) ==
    IF s = "sp1invoice"
    THEN Some([input_type |-> "SparkInvoice",
               description |-> Some("tea"), invoice |-> s])
    ELSE IF s = "sp1address"
    THEN Some([input_type |-> "SparkAddress", description |-> None, invoice |-> s])
    ELSE None

\* hex of a byte string (encode_hex, line 498; Hash::to_string, line 497).
HexDigits == <<"0", "1", "2", "3", "4", "5", "6", "7",
               "8", "9", "a", "b", "c", "d", "e", "f">>

RECURSIVE encode_hex(_)
encode_hex(bytes) ==
    IF bytes = <<>> THEN ""
    ELSE HexDigits[(bytes[1] \div 16) + 1] \o HexDigits[(bytes[1] % 16) + 1]
         \o encode_hex(Tail(bytes))

\* impl From<PreimageRequestStatus> for SparkHtlcStatus, lines 509-517.
SparkHtlcStatus_from(status) ==
    CASE status = "WaitingForPreimage" -> "WaitingForPreimage"
      [] status = "PreimageShared" -> "PreimageShared"
      [] status = "Returned" -> "Returned"

\* impl TryFrom<PreimageRequest> for SparkHtlcDetails, lines 493-507.
SparkHtlcDetails_try_from(value) ==
    IF value.expiry_time < 0
    THEN Err("Invalid expiry time")
    ELSE Ok([payment_hash |-> encode_hex(value.payment_hash),
             preimage |-> IF value.preimage = None THEN None
                          ELSE Some(encode_hex(value.preimage[1])),
             expiry_time |-> value.expiry_time,
             status |-> SparkHtlcStatus_from(value.status)])

\* reconcile_htlc_preimage with a slip: the fallback replaces the preimage.
reconcile_htlc_preimage_overwrite(d, preimage) ==
    LET filled == [d EXCEPT !.preimage = preimage]
    IN  IF is_some(filled.preimage)
        THEN [filled EXCEPT !.status = "PreimageShared"]
        ELSE filled

\* reconcile_htlc_preimage, lines 66-73: the details after the call.
reconcile_htlc_preimage(d, preimage) ==
    LET filled == IF is_none(d.preimage)
                  THEN [d EXCEPT !.preimage = preimage]
                  ELSE d
    IN  IF is_some(filled.preimage)
        THEN [filled EXCEPT !.status = "PreimageShared"]
        ELSE filled

\* derive_htlc_details_from_ssp with a slip: a transfer created exactly at
\* the cutoff is old.
is_old_inclusive(created_at) ==
    is_none(created_at) \/ created_at[1] <= HTLC_DATA_REQUIRED_SINCE

\* derive_htlc_details_from_ssp with a slip: a transfer whose creation time
\* is unknown is not old.
is_old_known(created_at) ==
    is_some(created_at) /\ created_at[1] < HTLC_DATA_REQUIRED_SINCE

\* derive_htlc_details_from_ssp, lines 32-35: the transfer was created
\* before the cutoff UNIX_EPOCH + HTLC_DATA_REQUIRED_SINCE, or at an unknown
\* time.  checked_add does not overflow.
is_old(created_at) ==
    is_none(created_at) \/ created_at[1] < HTLC_DATA_REQUIRED_SINCE

\* Lines 56-59 with a slip: a time before the epoch gives its distance from
\* the epoch, the Duration that the error of duration_since holds.
expiry_secs_distance(expiry_time) ==
    IF is_none(expiry_time) THEN 0
    ELSE IF expiry_time[1] >= 0 THEN expiry_time[1] ELSE 0 - expiry_time[1]

\* Lines 56-59: the seconds from UNIX_EPOCH to the expiry time, 0 when there
\* is none or duration_since fails because it is before the epoch.
expiry_secs(expiry_time) ==
    IF is_some(expiry_time) /\ expiry_time[1] >= 0 THEN expiry_time[1] ELSE 0

\* derive_htlc_details_from_ssp, lines 27-62.
derive_htlc_details_from_ssp(t, payment_hash, preimage) ==
    IF ~is_old(t.created_at)
    THEN Err("Missing HTLC details for Lightning payment transfer")
    ELSE Ok([payment_hash |-> payment_hash,
             preimage |-> preimage,
             expiry_time |-> expiry_secs(t.expiry_time),
             status |-> CASE t.status = "Completed" -> "PreimageShared"
                          [] t.status \in {"Expired", "Returned"} -> "Returned"
                          [] OTHER -> "WaitingForPreimage"])

\* PaymentMethod::from_transfer, lines 76-90.
PaymentMethod_from_transfer(t) ==
    CASE t.transfer_type = "PreimageSwap" ->
            IF t.is_ssp_transfer THEN "Lightning" ELSE "Spark"
      [] t.transfer_type = "CooperativeExit" -> "Withdraw"
      [] t.transfer_type = "UtxoSwap" -> "Deposit"
      [] t.transfer_type = "Transfer" -> "Spark"
      [] OTHER -> "Unknown"

\* PaymentDetails::Spark and PaymentDetails::Lightning as built in
\* from_transfer and from_lightning.
SparkDetails(invoice_details, htlc_details) ==
    [variant |-> "Spark", invoice_details |-> invoice_details,
     htlc_details |-> htlc_details, conversion_info |-> None]

LightningDetails(invoice_details, invoice, htlc_details) ==
    [variant |-> "Lightning",
     description |-> invoice_details.description,
     invoice |-> invoice,
     destination_pubkey |-> invoice_details.payee_pubkey,
     htlc_details |-> htlc_details,
     lnurl_pay_info |-> None, lnurl_withdraw_info |-> None,
     lnurl_receive_metadata |-> None]

\* PaymentDetails::from_transfer, lines 138-151 and 167-180: the HTLC
\* details of a Lightning payment, from the PreimageRequest when the
\* transfer has one, from the SSP request otherwise.
htlc_details_of(t, payment_hash, preimage) ==
    IF is_some(t.htlc_preimage_request)
    THEN LET converted == SparkHtlcDetails_try_from(t.htlc_preimage_request[1])
         IN  IF converted.ok
             THEN Ok(reconcile_htlc_preimage(converted.value, preimage))
             ELSE converted
    ELSE derive_htlc_details_from_ssp(t, payment_hash, preimage)

\* PaymentDetails::from_transfer, lines 96-126: a transfer that is not an
\* SSP transfer.
spark_details_of(t) ==
    IF is_some(t.spark_invoice)
    THEN LET parsed == parse_spark_address(t.spark_invoice[1])
         IN  IF is_some(parsed) /\ parsed[1].input_type = "SparkInvoice"
             THEN Ok(Some(SparkDetails(
                        Some([description |-> parsed[1].description,
                              invoice |-> parsed[1].invoice]),
                        None)))
             ELSE Err("Invalid spark invoice")
    ELSE IF is_some(t.htlc_preimage_request)
    THEN LET converted == SparkHtlcDetails_try_from(t.htlc_preimage_request[1])
         IN  IF converted.ok
             THEN Ok(Some(SparkDetails(None, Some(converted.value))))
             ELSE converted
    ELSE Ok(Some(SparkDetails(None, None)))

\* PaymentDetails::from_transfer, lines 132-202: the details of a user
\* request.
request_details_of(t, r) ==
    CASE r.variant = "LightningReceiveRequest" ->
            LET invoice_details == parse_invoice(r.invoice.encoded_invoice)
                htlc == htlc_details_of(t, r.invoice.payment_hash,
                                        r.lightning_receive_payment_preimage)
            IN  IF is_none(invoice_details)
                THEN Err("Invalid invoice in SspUserRequest::LightningReceiveRequest")
                ELSE IF ~htlc.ok THEN htlc
                ELSE Ok(Some(LightningDetails(invoice_details[1],
                                r.invoice.encoded_invoice, htlc.value)))
      [] r.variant = "LightningSendRequest" ->
            LET invoice_details == parse_invoice(r.encoded_invoice)
            IN  IF is_none(invoice_details)
                THEN Err("Invalid invoice in SspUserRequest::LightningSendRequest")
                ELSE LET htlc == htlc_details_of(t, invoice_details[1].payment_hash,
                                                 r.lightning_send_payment_preimage)
                     IN  IF ~htlc.ok THEN htlc
                         ELSE Ok(Some(LightningDetails(invoice_details[1],
                                        r.encoded_invoice, htlc.value)))
      [] r.variant = "CoopExitRequest" ->
            Ok(Some([variant |-> "Withdraw", tx_id |-> r.coop_exit_txid]))
      [] r.variant = "LeavesSwapRequest" ->
            Ok(Some(SparkDetails(None, None)))
      [] r.variant = "ClaimStaticDeposit" ->
            Ok(Some([variant |-> "Deposit", tx_id |-> r.transaction_id]))

\* PaymentDetails::from_transfer, lines 95-205.
PaymentDetails_from_transfer(t) ==
    IF ~t.is_ssp_transfer THEN spark_details_of(t)
    ELSE IF is_none(t.user_request) THEN Ok(None)
    ELSE request_details_of(t, t.user_request[1])

\* Lines 220-225 with a slip: PrimarySwapV3 is missing from the list.
SwapKindsShort == {"CounterSwap", "CounterSwapV3", "Swap"}

\* Lines 220-225: the transfer types that are no payments.
SwapKinds == {"CounterSwap", "CounterSwapV3", "Swap", "PrimarySwapV3"}

\* Lines 284-288 with a slip: UtxoSwap is missing from the list.
AsyncDetailsKindsShort == {"CooperativeExit", "PreimageSwap"}

\* Lines 284-288: the transfer types whose details may come later.
AsyncDetailsKinds == {"CooperativeExit", "PreimageSwap", "UtxoSwap"}

\* Lines 239-243 with a slip: the guard on the direction is missing.
status_of_any_direction(t) ==
    CASE t.status \in {"Completed", "SenderKeyTweaked"} -> "Completed"
      [] t.status \in {"Expired", "Returned"} -> "Failed"
      [] OTHER -> "Pending"

\* Lines 237-246: the status of the payment from the status of the
\* transfer.
status_of(t) ==
    CASE t.status = "Completed" -> "Completed"
      [] t.status = "SenderKeyTweaked" /\ t.direction = "Outgoing" -> "Completed"
      [] t.status \in {"Expired", "Returned"} -> "Failed"
      [] OTHER -> "Pending"

\* Lines 252-254 with a slip: the preimage does not change the status.
send_status_unforced(t, r) == status_of(t)

\* Lines 252-254: a Lightning send with a preimage is completed.
send_status(t, r) ==
    IF is_some(r.lightning_send_payment_preimage) THEN "Completed"
    ELSE status_of(t)

\* Lines 259-263 with a slip: the L1 broadcast fee is left out.
coop_exit_fee_declared(r) == unwrap_or(as_sats(r.fee), 0)

\* Lines 259-263: the fee of a cooperative exit.
coop_exit_fee(r) ==
    saturating_add(unwrap_or(as_sats(r.fee), 0),
                   unwrap_or(as_sats(r.l1_broadcast_fee), 0))

\* Line 272 with a slip: the fee is taken off the amount, as it is for a
\* Lightning send.
deposit_amount_sat_reduced(t, fee_sat) == saturating_sub(t.total_value_sat, fee_sat)

\* Line 272: the amount of a claimed static deposit is the total.
deposit_amount_sat(t, fee_sat) == t.total_value_sat

\* Lines 247-277: status, fees_sat and amount_sat after the match on the
\* user request.
split_of(t) ==
    IF is_none(t.user_request)
    THEN [status |-> status_of(t), fees_sat |-> 0, amount_sat |-> t.total_value_sat]
    ELSE LET r == t.user_request[1]
         IN  CASE r.variant = "LightningSendRequest" ->
                    LET fee_sat == unwrap_or(as_sats(r.fee), 0)
                    IN  [status |-> send_status(t, r),
                         fees_sat |-> fee_sat,
                         amount_sat |-> saturating_sub(t.total_value_sat, fee_sat)]
               [] r.variant = "CoopExitRequest" ->
                    LET fee_sat == coop_exit_fee(r)
                    IN  [status |-> status_of(t),
                         fees_sat |-> fee_sat,
                         amount_sat |-> saturating_sub(t.total_value_sat, fee_sat)]
               [] r.variant = "ClaimStaticDeposit" ->
                    LET fee_sat == saturating_sub(
                                     unwrap_or(as_sats(r.deposit_amount), 0),
                                     unwrap_or(as_sats(r.credit_amount), 0))
                    IN  [status |-> status_of(t),
                         fees_sat |-> fee_sat,
                         amount_sat |-> deposit_amount_sat(t, fee_sat)]
               [] OTHER ->
                    [status |-> status_of(t), fees_sat |-> 0,
                     amount_sat |-> t.total_value_sat]

\* impl TryFrom<WalletTransfer> for Payment, lines 219-310.
Payment_try_from(t) ==
    IF t.transfer_type \in SwapKinds
    THEN Err("Swap-related transfers are not considered payments")
    ELSE LET split == split_of(t)
             found == PaymentDetails_from_transfer(t)
         IN  IF ~found.ok THEN found
             ELSE LET absent == is_none(found.value)
                  IN  Ok([id |-> t.id,
                          payment_type |-> IF t.direction = "Incoming"
                                           THEN "Receive" ELSE "Send",
                          status |-> IF /\ absent
                                        /\ split.status = "Completed"
                                        /\ t.transfer_type \in AsyncDetailsKinds
                                     THEN "Pending" ELSE split.status,
                          amount |-> IF absent THEN t.total_value_sat
                                     ELSE split.amount_sat,
                          fees |-> split.fees_sat,
                          timestamp |-> IF is_some(t.created_at) /\ t.created_at[1] >= 0
                                        THEN t.created_at[1] ELSE 0,
                          method |-> PaymentMethod_from_transfer(t),
                          details |-> found.value,
                          conversion_details |-> None])

\* from_lightning, line 340, with a slip: the details are passed on as they
\* came.
lightning_htlc_stale(p, htlc_details) == htlc_details

\* from_lightning, line 340.
lightning_htlc(p, htlc_details) ==
    reconcile_htlc_preimage(htlc_details, p.payment_preimage)

\* from_lightning, lines 327-338: the status of the payment.
lightning_status(p) ==
    IF is_some(p.payment_preimage) THEN "Completed"
    ELSE CASE p.status = "LightningPaymentSucceeded" -> "Completed"
           [] p.status \in {"LightningPaymentFailed", "TransferFailed",
                            "PreimageProvidingFailed", "UserSwapReturnFailed",
                            "UserSwapReturned"} -> "Failed"
           [] OTHER -> "Pending"

\* i64::cast_unsigned (line 361).
cast_unsigned(i) == IF i < 0 THEN i + U64_MAX + 1 ELSE i

\* Payment::from_lightning, lines 321-366.
Payment_from_lightning(p, amount_sat, transfer_id, htlc_details) ==
    LET invoice_details == parse_invoice(p.encoded_invoice)
    IN  IF is_none(invoice_details)
        THEN Err("Invalid invoice in LightnintSendPayment")
        ELSE Ok([id |-> transfer_id,
                 payment_type |-> "Send",
                 status |-> lightning_status(p),
                 amount |-> amount_sat,
                 fees |-> p.fee_sat,
                 timestamp |-> cast_unsigned(p.created_at),
                 method |-> "Lightning",
                 details |-> Some(LightningDetails(invoice_details[1],
                                     p.encoded_invoice,
                                     lightning_htlc(p, htlc_details))),
                 conversion_details |-> None])

\* ------------------------------------------------- inputs of the reconciler
TransferTypes ==
    {"PreimageSwap", "CooperativeExit", "UtxoSwap", "Transfer",
     "CounterSwap", "CounterSwapV3", "Swap", "PrimarySwapV3"}
TransferDirections == {"Incoming", "Outgoing"}
TransferStatuses ==
    {"Completed", "SenderKeyTweaked", "Expired", "Returned", "SenderInitiated"}

\* u64 values: the amounts of the documented scenarios and the ends of the
\* range.
Sats == {0, 100, 150, 200, 10000, 50000, U64_MAX}

Satoshis(v) == [original_value |-> v, original_unit |-> "SATOSHI"]
CurrencyAmounts ==
    {Satoshis(v) : v \in Sats} \cup {[original_value |-> 100, original_unit |-> "USD"]}

\* Preimages as the SSP gives them (hex strings), encoded invoices.
SspPreimages == {None, Some("cd")}
Invoices == {"lnbc1valid", "garbage"}

LightningSendRequest(invoice, fee, preimage) ==
    [variant |-> "LightningSendRequest", encoded_invoice |-> invoice,
     fee |-> fee, lightning_send_payment_preimage |-> preimage]

LightningReceiveRequest(invoice, preimage) ==
    [variant |-> "LightningReceiveRequest",
     invoice |-> [encoded_invoice |-> invoice, payment_hash |-> "c3"],
     lightning_receive_payment_preimage |-> preimage]

CoopExitRequest(fee, l1_broadcast_fee) ==
    [variant |-> "CoopExitRequest", fee |-> fee,
     l1_broadcast_fee |-> l1_broadcast_fee, coop_exit_txid |-> "txid1"]

LeavesSwapRequest == [variant |-> "LeavesSwapRequest"]

ClaimStaticDeposit(deposit_amount, credit_amount) ==
    [variant |-> "ClaimStaticDeposit", deposit_amount |-> deposit_amount,
     credit_amount |-> credit_amount, transaction_id |-> "txid2"]

\* Every variant of SspUserRequest, with fixed amounts.
KindRequests ==
    {LightningSendRequest("lnbc1valid", Satoshis(100), p) : p \in SspPreimages}
    \cup {LightningSendRequest("garbage", Satoshis(100), None)}
    \cup {LightningReceiveRequest("lnbc1valid", p) : p \in SspPreimages}
    \cup {LightningReceiveRequest("garbage", None)}
    \cup {CoopExitRequest(Satoshis(200), Satoshis(150)),
          LeavesSwapRequest,
          ClaimStaticDeposit(Satoshis(10000), Satoshis(200))}

\* The variants of SspUserRequest that carry amounts, with every amount.
AmountRequests ==
    {LightningSendRequest("lnbc1valid", fee, p) :
        fee \in CurrencyAmounts, p \in SspPreimages}
    \cup {CoopExitRequest(fee, l1) : fee \in CurrencyAmounts, l1 \in CurrencyAmounts}
    \cup {ClaimStaticDeposit(d, c) : d \in CurrencyAmounts, c \in CurrencyAmounts}

\* PreimageRequest records of the operator: the payment hash and the
\* preimage are bytes, expiry_time is a SystemTime.
PreimageRequest(preimage, status, expiry_time) ==
    [payment_hash |-> <<195>>, preimage |-> preimage,
     expiry_time |-> expiry_time, status |-> status]

HtlcStatuses == {"WaitingForPreimage", "PreimageShared", "Returned"}

PreimageRequests ==
    {PreimageRequest(p, st, 7200) : p \in {None, Some(<<171>>)}, st \in HtlcStatuses}
    \cup {PreimageRequest(None, "WaitingForPreimage", -1)}

\* Creation times around the cutoff.
CreationTimes ==
    {None, Some(HTLC_DATA_REQUIRED_SINCE - 1), Some(HTLC_DATA_REQUIRED_SINCE),
     Some(HTLC_DATA_REQUIRED_SINCE + 1)}

WalletTransfers(types, ssp, requests, htlcs, spark_invoices, created, totals) ==
    [id : {"t1"},
     transfer_type : types,
     direction : TransferDirections,
     status : TransferStatuses,
     is_ssp_transfer : ssp,
     user_request : requests,
     htlc_preimage_request : htlcs,
     spark_invoice : spark_invoices,
     created_at : created,
     expiry_time : {None, Some(3600)},
     total_value_sat : totals]

\* Transfers of every type, direction, status and shape of side records.
KindTransfers ==
    WalletTransfers(TransferTypes, BOOLEAN,
                    {None} \cup {Some(r) : r \in KindRequests},
                    {None} \cup {Some(r) : r \in PreimageRequests},
                    {None, Some("sp1invoice"), Some("sp1address")},
                    CreationTimes, {10000})

\* SSP transfers of every amount.
AmountTransfers ==
    WalletTransfers({"PreimageSwap", "CooperativeExit", "UtxoSwap"}, {TRUE},
                    {Some(r) : r \in AmountRequests},
                    {None}, {None}, {None}, Sats)

\* try_from with a slip: a result computed before is kept when it was
\* Completed.
try_from_cached ==
    /\ transfer # None
    /\ payment' = IF /\ payment # None
                     /\ payment[1].ok
                     /\ payment[1].value.status = "Completed"
                  THEN Some([payment[1] EXCEPT !.value.timestamp = @ + 1])
                  ELSE Some(Payment_try_from(transfer[1]))
    /\ conversions < MaxConversions
    /\ conversions' = conversions + 1
    /\ UNCHANGED <<transfer, lightning, details>>
    /\ UNCHANGED <<cvars, gvars, avars, ivars>>

\* Payment::try_from(transfer): the transfer is converted, for the first
\* time or again.
try_from ==
    /\ transfer # None
    /\ payment' = Some(Payment_try_from(transfer[1]))
    /\ conversions < MaxConversions
    /\ conversions' = conversions + 1
    /\ UNCHANGED <<transfer, lightning, details>>
    /\ UNCHANGED <<cvars, gvars, avars, ivars>>

\* The coordinator is not used.
CoordinatorIdle ==
    /\ sync_running = FALSE
    /\ waiters = <<>>
    /\ subscribed = FALSE
    /\ pending = {}
    /\ pc = [t \in Tasks |-> "idle"]
    /\ call = [t \in Tasks |-> NoCall]
    /\ loc = [t \in Tasks |-> NoLoc]
    /\ rx = [t \in Tasks |-> NoRx]
    /\ ret = [t \in Tasks |-> NoRet]
    /\ rounds = <<>>
    /\ regAt = [t \in Tasks |-> 0]
    /\ midRound = [t \in Tasks |-> FALSE]
    /\ notified = [t \in Tasks |-> 0]
    /\ cancels = 0
    /\ lock = NoTask
    /\ droppedDriver = FALSE

\* SSP transfers without an HTLC record that carry a Lightning request with
\* a well-formed invoice: every status, direction and creation time, an
\* expiry time that is unset, after the epoch or before it, and for a
\* receive request a payment hash that is or is not the one of the invoice.
ExpiryTimes == {None, Some(3600), Some(-60)}

LegacyRequests ==
    {LightningSendRequest("lnbc1valid", Satoshis(100), p) : p \in SspPreimages}
    \cup {[LightningReceiveRequest("lnbc1valid", p) EXCEPT !.invoice.payment_hash = h] :
            p \in SspPreimages, h \in {"c3", "d4"}}

LegacyTransfers ==
    {[t EXCEPT !.expiry_time = e] :
        t \in WalletTransfers({"PreimageSwap"}, {TRUE},
                              {Some(r) : r \in LegacyRequests},
                              {None}, {None}, CreationTimes, {10000}),
        e \in ExpiryTimes}

InitLegacy ==
    /\ CoordinatorIdle
    /\ NoClaiming
    /\ NoAddress
    /\ NoInvoices
    /\ transfer \in {Some(t) : t \in LegacyTransfers}
    /\ lightning = None
    /\ details = None
    /\ payment = None
    /\ conversions = 0

NextLegacy == try_from

SpecLegacy == InitLegacy /\ [][NextLegacy]_vars

InitReconcile ==
    /\ CoordinatorIdle
    /\ NoClaiming
    /\ NoAddress
    /\ NoInvoices
    /\ transfer \in {Some(t) : t \in KindTransfers \cup AmountTransfers}
    /\ lightning = None
    /\ details = None
    /\ payment = None
    /\ conversions = 0

NextReconcile == try_from

SpecReconcile == InitReconcile /\ [][NextReconcile]_vars

\* --------------------------------------------- inputs of from_lightning
LightningSendStatuses ==
    {"LightningPaymentSucceeded", "LightningPaymentFailed", "TransferFailed",
     "PreimageProvidingFailed", "UserSwapReturnFailed", "UserSwapReturned",
     "Created", "LightningPaymentInitiated"}

\* Fallback preimages: none, the one of the HTLC record, another one.
Fallbacks == {None, Some("ab"), Some("cd")}

LightningSendPayments ==
    [status : LightningSendStatuses,
     payment_preimage : Fallbacks,
     encoded_invoice : Invoices,
     fee_sat : {0, 100},
     created_at : {-1, 1700000000}]

\* The PreimageRequest records with a valid expiry time, and the
\* SparkHtlcDetails they convert to.
ValidPreimageRequests ==
    {PreimageRequest(p, st, 7200) :
        p \in {None, Some(<<171>>), Some(<<205>>)}, st \in HtlcStatuses}

HtlcDetailsOf(requests) == {SparkHtlcDetails_try_from(r).value : r \in requests}

\* reconcile_htlc_preimage(&mut details, preimage), lines 66-73, called
\* with any fallback on the details at hand.
reconcile(preimage) ==
    /\ details # None
    /\ details' = Some(reconcile_htlc_preimage(details[1], preimage))
    /\ UNCHANGED <<transfer, lightning, payment, conversions>>
    /\ UNCHANGED <<cvars, gvars, avars, ivars>>

\* Payment::from_lightning(payment, amount_sat, transfer_id, htlc_details),
\* lines 321-366, called with the details at hand, which the caller keeps.
from_lightning ==
    /\ lightning # None
    /\ details # None
    /\ payment' = Some(Payment_from_lightning(lightning[1].payment,
                          lightning[1].amount_sat, lightning[1].transfer_id,
                          details[1]))
    /\ UNCHANGED <<transfer, lightning, details, conversions>>
    /\ UNCHANGED <<cvars, gvars, avars, ivars>>

InitLightning ==
    /\ CoordinatorIdle
    /\ NoClaiming
    /\ NoAddress
    /\ NoInvoices
    /\ transfer = None
    /\ lightning \in {Some([payment |-> p, amount_sat |-> 9900, transfer_id |-> "t1"]) :
                        p \in LightningSendPayments}
    /\ details \in {Some(d) :
                        d \in HtlcDetailsOf({r \in ValidPreimageRequests :
                                                r.preimage # Some(<<205>>)})}
    /\ payment = None
    /\ conversions = 0

NextLightning ==
    \/ \E preimage \in Fallbacks : reconcile(preimage)
    \/ from_lightning

SpecLightning == InitLightning /\ [][NextLightning]_vars

\* ======================================================== claim trigger
\* The claim pipeline is specified as a contract: a sync round that
\* succeeded makes the pending inbound transfers visible for claiming, and a
\* counting gate, a fixed pool of max_concurrent_claims claim slots, bounds
\* the claim operations that run at a time.  A transfer is "absent" (not
\* sent yet), "inbound" (pending on the ledger), "visible" (found by a sync
\* round, waiting for a slot), "claiming" (its claim operation runs) or
\* "claimed".
ClaimStates == {"absent", "inbound", "visible", "claiming", "claimed"}
Claiming == {x \in Transfers : claim[x] = "claiming"}

\* The gate with a slip: a claim operation is spawned for every visible
\* transfer, whatever the number of free slots.
slot_free_unbounded(n) == TRUE

\* The counting gate: a claim operation starts only when a slot is free.
slot_free(n) == n > 0

\* A transfer is sent to the wallet and is pending on the ledger.
transfer_arrives(x) ==
    /\ claim[x] = "absent"
    /\ claim' = [claim EXCEPT ![x] = "inbound"]
    /\ UNCHANGED <<max_concurrent_claims, slots>>
    /\ UNCHANGED <<cvars, rvars, avars, ivars>>

\* A sync round succeeded: every pending inbound transfer is visible for
\* claiming.  Transfers that are being claimed or are claimed stay as they
\* are: a claim is idempotent per transfer id.
sync_succeeded ==
    /\ \E x \in Transfers : claim[x] = "inbound"
    /\ claim' = [x \in Transfers |->
                    IF claim[x] = "inbound" THEN "visible" ELSE claim[x]]
    /\ UNCHANGED <<max_concurrent_claims, slots>>
    /\ UNCHANGED <<cvars, rvars, avars, ivars>>

\* The claim operation of a visible transfer takes a slot and starts.
claim_start(x) ==
    /\ claim[x] = "visible"
    /\ slot_free(slots)
    /\ slots' = slots - 1
    /\ claim' = [claim EXCEPT ![x] = "claiming"]
    /\ UNCHANGED max_concurrent_claims
    /\ UNCHANGED <<cvars, rvars, avars, ivars>>

\* A claim operation ends and gives its slot back.  A claim that failed
\* leaves the transfer pending on the ledger, to be found by the next sync
\* round; it does not touch the other claims.
claim_finish(x, ok) ==
    /\ claim[x] = "claiming"
    /\ slots' = slots + 1
    /\ claim' = [claim EXCEPT ![x] = IF ok THEN "claimed" ELSE "inbound"]
    /\ UNCHANGED max_concurrent_claims
    /\ UNCHANGED <<cvars, rvars, avars, ivars>>

\* The receiver is built with max_concurrent_claims set (claim_perf.rs,
\* line 253), any value of at least 1, and all its slots free.
InitClaim ==
    /\ CoordinatorIdle
    /\ NoReconciliation
    /\ NoAddress
    /\ NoInvoices
    /\ max_concurrent_claims \in 1..MaxClaims
    /\ slots = max_concurrent_claims
    /\ claim = [x \in Transfers |-> "absent"]

NextClaim ==
    \/ \E x \in Transfers : transfer_arrives(x)
    \/ sync_succeeded
    \/ \E x \in Transfers : claim_start(x)
    \/ \E x \in Transfers, ok \in BOOLEAN : claim_finish(x, ok)

SpecClaim == InitClaim /\ [][NextClaim]_vars

\* ========================== lightning address (sdk/lightning_address.rs)
\* A call is one step.  The cached item is the string stored under the key
\* "lightning_address", None while the key is absent.  The LNURL server
\* holds the address registered for the wallet, which another instance of
\* the wallet may change; a call to the server may fail.
Infos == {"alice@breez.tips", "bob@breez.tips", "carol@breez.tips"}
NotConfigured == "LNURL server is not configured"
ServerError == "server error"

flatten(o) == IF o = None THEN None ELSE o[1]

\* ObjectCacheRepository::delete_lightning_address with a slip: the key is
\* removed.
delete_lightning_address_removing == None

\* ObjectCacheRepository::delete_lightning_address (lines 185-192): the key
\* stays, its value is null.
delete_lightning_address == Some("null")

\* ObjectCacheRepository::save_lightning_address (lines 200-206).
save_lightning_address(info) == Some(info)

\* ObjectCacheRepository::fetch_lightning_address (lines 170-172, 187-192,
\* 205-210): key absent, value null, value an address.
fetch_lightning_address(item) ==
    IF item = None THEN None
    ELSE IF item[1] = "null" THEN Some(None)
    ELSE Some(Some(item[1]))

Called(op, contacted, result) ==
    [op |-> op, contacted |-> contacted, result |-> result,
     recoveries |-> last.recoveries]

Recovered(op, resp) ==
    [op |-> op, contacted |-> TRUE, result |-> resp,
     recoveries |-> last.recoveries + 1]

\* recover_lightning_address, lines 72-94, with the server's answer resp,
\* Err(e) or Ok(the address it holds).
recover_lightning_address(op, resp) ==
    IF ~lnurl_server_client
    THEN /\ last' = Called(op, FALSE, Err(NotConfigured))
         /\ cache' = cache
    ELSE IF ~resp.ok
    THEN /\ last' = Called(op, TRUE, resp)
         /\ cache' = cache
    ELSE /\ last' = Recovered(op, resp)
         /\ cache' = IF is_some(resp.value)
                      THEN save_lightning_address(resp.value[1])
                      ELSE delete_lightning_address

\* What a call to the server may give.
Answers == {Err(ServerError), Ok(server)}

\* get_lightning_address, lines 28-35.
get_lightning_address(resp) ==
    /\ LET cached == fetch_lightning_address(cache)
       IN  IF is_none(cached) /\ lnurl_server_client
           THEN recover_lightning_address("get", resp)
           ELSE /\ last' = Called("get", FALSE, Ok(flatten(cached)))
                /\ cache' = cache
    /\ UNCHANGED <<lnurl_server_client, server>>
    /\ UNCHANGED <<cvars, rvars, gvars, ivars>>

\* register_lightning_address, lines 37-45 and 96-129; ok tells whether the
\* calls it makes outside the cache succeed.
register_lightning_address(info, ok) ==
    /\ IF ~lnurl_server_client
       THEN /\ last' = Called("register", FALSE, Err(NotConfigured))
            /\ UNCHANGED <<cache, server>>
       ELSE IF ~ok
       THEN /\ last' = Called("register", TRUE, Err(ServerError))
            /\ UNCHANGED <<cache, server>>
       ELSE /\ last' = Called("register", TRUE, Ok(Some(info)))
            /\ server' = Some(info)
            /\ cache' = save_lightning_address(info)
    /\ UNCHANGED lnurl_server_client
    /\ UNCHANGED <<cvars, rvars, gvars, ivars>>

\* delete_lightning_address, lines 47-66.
BreezSdk_delete_lightning_address(ok) ==
    /\ IF is_none(flatten(fetch_lightning_address(cache)))
       THEN /\ last' = Called("delete", FALSE, Ok(None))
            /\ UNCHANGED <<cache, server>>
       ELSE IF ~lnurl_server_client
       THEN /\ last' = Called("delete", FALSE, Err(NotConfigured))
            /\ UNCHANGED <<cache, server>>
       ELSE IF ~ok
       THEN /\ last' = Called("delete", TRUE, Err(ServerError))
            /\ UNCHANGED <<cache, server>>
       ELSE /\ last' = Called("delete", TRUE, Ok(None))
            /\ server' = None
            /\ cache' = delete_lightning_address
    /\ UNCHANGED lnurl_server_client
    /\ UNCHANGED <<cvars, rvars, gvars, ivars>>

\* Another instance of the wallet registers or unregisters an address.
server_changes(a) ==
    /\ server # a
    /\ server' = a
    /\ UNCHANGED <<lnurl_server_client, cache, last>>
    /\ UNCHANGED <<cvars, rvars, gvars, ivars>>

\* A fresh storage, with or without a server client, and a server that may
\* hold an address registered before.
InitAddress ==
    /\ CoordinatorIdle
    /\ NoReconciliation
    /\ NoClaiming
    /\ lnurl_server_client \in BOOLEAN
    /\ cache = None
    /\ server \in {None} \cup {Some(a) : a \in Infos}
    /\ last = NoLast
    /\ NoInvoices

NextAddress ==
    \/ \E resp \in Answers : get_lightning_address(resp)
    \/ \E info \in Infos, ok \in BOOLEAN : register_lightning_address(info, ok)
    \/ \E ok \in BOOLEAN : BreezSdk_delete_lightning_address(ok)
    \/ \E a \in {None} \cup {Some(i) : i \in Infos} : server_changes(a)

SpecAddress == InitAddress /\ [][NextAddress]_vars

\* ============================== invoice paid (lnurl/src/invoice_paid.rs)
\* handle_invoice_paid is called by any number of tasks at once.  A step of
\* a handler runs the code up to and including one operation of the
\* repository, which succeeds or fails as a whole; the three of them are
\* the points where the calls interleave.  A hex string is the sequence of
\* its characters.
UpperHexDigits == <<"A", "B", "C", "D", "E", "F">>

\* The value of one hex digit, -1 for any other character.
hex_digit(c) ==
    IF \E k \in 1..16 : HexDigits[k] = c
    THEN (CHOOSE k \in 1..16 : HexDigits[k] = c) - 1
    ELSE IF \E k \in 1..6 : UpperHexDigits[k] = c
    THEN (CHOOSE k \in 1..6 : UpperHexDigits[k] = c) + 9
    ELSE -1

\* hex::decode (line 19): the bytes of a hex string of either case, None
\* for a string of odd length or with a character that is no hex digit.
RECURSIVE hex_decode(_)
hex_decode(cs) ==
    IF Len(cs) % 2 = 1 THEN None
    ELSE IF cs = <<>> THEN Some(<<>>)
    ELSE LET hi == hex_digit(cs[1])
             lo == hex_digit(cs[2])
             rest == hex_decode(Tail(Tail(cs)))
         IN  IF hi < 0 \/ lo < 0 \/ rest = None THEN None
             ELSE Some(<<hi * 16 + lo>> \o rest[1])

\* sha256::Hash::hash(bytes).to_string() (line 22): a lower-case string that
\* is a function of the bytes and differs for different bytes.
sha256_hex(bytes) == "sha256:" \o encode_hex(bytes)

InvalidPreimage(msg) == Err("InvalidPreimage: " \o msg)
RepositoryError == Err("Repository")

\* verify_preimage with a slip: the hash is not compared.
verify_preimage_decoded(payment_hash, preimage) ==
    IF hex_decode(preimage) = None
    THEN InvalidPreimage("could not hex-decode preimage")
    ELSE Ok("()")

\* verify_preimage, lines 18-29.
verify_preimage(payment_hash, preimage) ==
    LET preimage_bytes == hex_decode(preimage)
    IN  IF preimage_bytes = None
        THEN InvalidPreimage("could not hex-decode preimage")
        ELSE IF sha256_hex(preimage_bytes[1]) # payment_hash
        THEN InvalidPreimage("preimage does not match payment hash")
        ELSE Ok("()")

\* The repository (trait LnurlRepository): the invoices are kept by payment
\* hash, upsert_invoice replaces the invoice of its payment hash, and
\* insert_newly_paid adds an entry.
get_invoice_by_payment_hash(db, payment_hash) ==
    IF payment_hash \in DOMAIN db THEN Some(db[payment_hash]) ELSE None

upsert_invoice(db, invoice) ==
    [h \in DOMAIN db \cup {invoice.payment_hash} |->
        IF h = invoice.payment_hash THEN invoice ELSE db[h]]

insert_newly_paid(entries, newly_paid_entry) == Append(entries, newly_paid_entry)

\* Line 54 with a slip: the invoice is never taken as paid.
already_paid_never(invoice) == FALSE

\* Line 54: the invoice has a preimage.
already_paid(invoice) == is_some(invoice.preimage)

\* The call of handler i returns.
HandlerReturns(i, result) ==
    /\ hpc' = [hpc EXCEPT ![i] = "idle"]
    /\ hret' = [hret EXCEPT ![i] = result]

\* The handlers are alike: the idle handler of the lowest number makes the
\* next call.
NextHandler(i) == \A j \in Handlers : j < i => hpc[j] # "idle"

\* handle_invoice_paid, lines 32-58: the preimage is verified, the clock is
\* read and the invoice is fetched; got tells whether the repository
\* answers.  The call returns here unless the invoice is there and unpaid.
handle_invoice_paid(i, payment_hash, preimage, got) ==
    /\ hpc[i] = "idle"
    /\ NextHandler(i)
    /\ ncalls < MaxCalls
    /\ ncalls' = ncalls + 1
    /\ LET verified == verify_preimage(payment_hash, preimage)
           found == get_invoice_by_payment_hash(invoices, payment_hash)
           args == [payment_hash |-> payment_hash, preimage |-> preimage,
                    now |-> 0, invoice |-> None, call_no |-> ncalls + 1]
       IN  IF ~verified.ok
           THEN /\ HandlerReturns(i, verified)
                /\ hloc' = [hloc EXCEPT ![i] = args]
                /\ UNCHANGED <<now, reads>>
           ELSE /\ now' = now + 1
                /\ reads' = reads + 1
                /\ IF ~got
                   THEN /\ HandlerReturns(i, RepositoryError)
                        /\ hloc' = [hloc EXCEPT ![i] = [args EXCEPT !.now = now']]
                   ELSE IF found = None \/ already_paid(found[1])
                   THEN /\ HandlerReturns(i, Ok("()"))
                        /\ hloc' = [hloc EXCEPT ![i] = [args EXCEPT !.now = now']]
                   ELSE /\ hpc' = [hpc EXCEPT ![i] = "upsert"]
                        /\ hret' = [hret EXCEPT ![i] = NoHandlerRet]
                        /\ hloc' = [hloc EXCEPT ![i] =
                              [args EXCEPT
                                 !.now = now',
                                 !.invoice = Some([found[1] EXCEPT
                                                !.preimage = Some(preimage),
                                                !.updated_at = now'])]]
    /\ UNCHANGED <<invoices, newly_paid, triggers, writes>>
    /\ UNCHANGED <<cvars, rvars, gvars, avars>>

\* Lines 60-64: the invoice with the preimage is stored, or the repository
\* fails and the call returns its error.
store_preimage(i, ok) ==
    /\ hpc[i] = "upsert"
    /\ IF ok
       THEN /\ invoices' = upsert_invoice(invoices, hloc[i].invoice[1])
            /\ writes' = Append(writes, [payment_hash |-> hloc[i].payment_hash,
                                         preimage |-> hloc[i].preimage,
                                         call_no |-> hloc[i].call_no])
            /\ hpc' = [hpc EXCEPT ![i] = "insert"]
            /\ UNCHANGED hret
       ELSE /\ HandlerReturns(i, RepositoryError)
            /\ UNCHANGED <<invoices, writes>>
    /\ UNCHANGED <<newly_paid, triggers, reads, now, hloc, ncalls>>
    /\ UNCHANGED <<cvars, rvars, gvars, avars>>

\* Lines 66-83: the NewlyPaid entry is inserted, the trigger is sent and the
\* call returns Ok, or the repository fails and the call returns its error.
queue_newly_paid(i, ok) ==
    /\ hpc[i] = "insert"
    /\ IF ok
       THEN /\ newly_paid' = insert_newly_paid(newly_paid,
                                [payment_hash |-> hloc[i].payment_hash,
                                 created_at |-> hloc[i].now,
                                 retry_count |-> 0,
                                 next_retry_at |-> hloc[i].now])
            /\ triggers' = triggers + 1
            /\ HandlerReturns(i, Ok("()"))
       ELSE /\ HandlerReturns(i, RepositoryError)
            /\ UNCHANGED <<newly_paid, triggers>>
    /\ UNCHANGED <<invoices, reads, writes, now, hloc, ncalls>>
    /\ UNCHANGED <<cvars, rvars, gvars, avars>>

\* ------------------------------------------ inputs of handle_invoice_paid
\* Preimages: two spellings of the byte ab, the byte cd, a string that is
\* no hex and a string of odd length.
PreimageStrings ==
    {<<"a", "b">>, <<"A", "B">>, <<"c", "d">>, <<"z", "z">>, <<"a">>}

PaymentHashes == {sha256_hex(<<171>>), sha256_hex(<<205>>)}

\* create_invoice, lines 97-106: an invoice as it is created, at time 0.
NewInvoice(payment_hash) ==
    [payment_hash |-> payment_hash, preimage |-> None,
     created_at |-> 0, updated_at |-> 0]

\* An invoice was created for the first payment hash, and maybe for the
\* second one.
InitInvoice ==
    /\ CoordinatorIdle
    /\ NoReconciliation
    /\ NoClaiming
    /\ NoAddress
    /\ invoices \in {[h \in hs |-> NewInvoice(h)] :
                        hs \in {{sha256_hex(<<171>>)}, PaymentHashes}}
    /\ newly_paid = <<>>
    /\ triggers = 0
    /\ reads = 0
    /\ writes = <<>>
    /\ now = 0
    /\ HandlersIdle

NextInvoice ==
    \/ \E i \in Handlers, h \in PaymentHashes, p \in PreimageStrings, got \in BOOLEAN :
          handle_invoice_paid(i, h, p, got)
    \/ \E i \in Handlers, ok \in BOOLEAN : store_preimage(i, ok)
    \/ \E i \in Handlers, ok \in BOOLEAN : queue_newly_paid(i, ok)

SpecInvoice == InitInvoice /\ [][NextInvoice]_vars

\* ------------------------------------------------------------ properties
Registered(t) == pc[t] \notin {"idle", "called"}
Returned(t) == ret[t] # NoRet
Waiting(t) == call[t].kind = "wait"
Drivers == {t \in Tasks : pc[t] \in {"loop", "await_reply"}}
Rounds == 1..Len(rounds)
Members(k) == {w.by : w \in Range(rounds[k].batch)}

\* C1. Post-call freshness: the value a call of trigger_sync_and_wait
\* returns, or holds in its receiver, comes from a round whose SyncRequest
\* was published after the call registered its waiter; a call that
\* registered while a round was in flight never gets that round's result.
C1_PostCallFreshness ==
    \A t \in Tasks :
        /\ Returned(t) => ret[t].round > regAt[t]
        /\ rx[t] # NoRx => rx[t].round > regAt[t]

\* A call registered while a round was in flight and has returned Ok.
C1_Witness ==
    \E t \in Tasks : midRound[t] /\ regAt[t] >= 1 /\ ret[t].val = "Ok"

C4_NonMerging ==
    /\ \A k \in Rounds : \A c \in Members(k) :
            call[c].sync_type = rounds[k].sync_type
    /\ \A req \in pending : req.sync_type = rounds[req.round].sync_type
    /\ \A t \in Tasks :
        /\ Returned(t) => rounds[ret[t].round].sync_type = call[t].sync_type
        /\ rx[t] # NoRx => rounds[rx[t].round].sync_type = call[t].sync_type

\* Two calls of different types were queued together and both returned.
C4_Witness ==
    \E t, u \in Tasks :
        /\ call[t].sync_type # call[u].sync_type
        /\ regAt[t] = regAt[u]
        /\ Returned(t) /\ Returned(u)

\* C7. Single global round: at most one task is in the run loop, and at
\* most one published SyncRequest is unanswered.
C7_SingleRound ==
    /\ Cardinality(Drivers) <= 1
    /\ Cardinality(pending) <= 1

\* A second round is in flight, the first was answered.
C7_Witness ==
    /\ Len(rounds) = 2
    /\ rounds[1].outcome \in SubscriberReplies
    /\ \E req \in pending : req.round = 2

\* C8. Failure delivery: when the publication of a round failed or its
\* reply sender was dropped, every waiting caller of the batch whose future
\* is alive has got that error, and none of them returned Ok.
C8_FailureDelivery ==
    \A k \in Rounds :
        rounds[k].outcome \in {ErrPublish, ErrReplyClosed} =>
            \A c \in Members(k) :
                (Waiting(c) /\ pc[c] # "cancelled") =>
                    LET v == [val |-> rounds[k].outcome, round |-> k]
                    IN  /\ ret[c] = v \/ rx[c] = v
                        /\ v.val \in GenericErrors

\* Two callers of one batch returned the error of its failed round.
C8_Witness ==
    \E k \in Rounds : \E c, d \in Members(k) :
        /\ c # d
        /\ rounds[k].outcome \in {ErrPublish, ErrReplyClosed}
        /\ ret[c].val = rounds[k].outcome
        /\ ret[d].val = rounds[k].outcome

\* C9. Exactly-once outcome per batch: a call that returned was in one
\* batch, returned the outcome of that batch's round, and its sender was
\* used once.
C9_ExactlyOnceOutcome ==
    \A t \in Tasks :
        Returned(t) =>
            /\ t \in Members(ret[t].round)
            /\ ret[t].val = rounds[ret[t].round].outcome
            /\ notified[t] = 1

\* C10. Cancellation safety: whatever future is dropped, no other caller is
\* told that its completion channel was closed, and while sync_running is
\* set a task is in the run loop to serve the waiters that are or will be
\* queued.
C10_CancellationSafety ==
    /\ \A t \in Tasks : ret[t].val # ErrCompletionClosed
    /\ sync_running => Drivers # {}

\* A step in which the run loop forms a batch, and the round it starts.
Formed == Len(rounds') = Len(rounds) + 1
NewRound == rounds'[Len(rounds')]
Left == {w \in Range(waiters) : \A j \in 1..Len(waiters') : waiters'[j].by # w.by}
Stayed == {w \in Range(waiters) : \E j \in 1..Len(waiters') : waiters'[j] = w}

\* C3. Requests of one type share one new round: when the run loop forms a
\* batch of type T, every waiter of type T queued at that moment leaves the
\* queue with that batch, the senders of all of them are the batch's
\* senders, and no waiter of type T is left for a later round.
C3_OneRoundPerType ==
    [][Formed =>
        LET T == NewRound.sync_type
        IN  /\ \A w \in Range(waiters) : w.sync_type = T => w \in Left
            /\ \A j \in 1..Len(waiters') : waiters'[j].sync_type # T
            /\ Range(NewRound.batch) = {w \in Range(waiters) : w.sync_type = T}
            /\ \A req \in pending' \ pending :
                 /\ req.sync_type = T
                 /\ Range(loc'[req.driver].senders) =
                      {w.sender : w \in {x \in Range(waiters) :
                                            x.sync_type = T /\ x.sender # NoTask}}
    ]_vars

\* A batch of two waiters that registered during the round before was
\* formed while a waiter of the other type was queued.
C3_Witness ==
    \E k \in Rounds :
        /\ k >= 2
        /\ Len(rounds[k].batch) >= 2
        /\ waiters # <<>>

\* C5. First-seen type order: each time the run loop forms a batch, its type
\* is the type of the earliest-registered waiter in the queue, and the
\* waiters of the other types stay queued in their order of arrival.
C5_FirstSeenOrder ==
    [][Formed =>
        /\ \E w \in Range(waiters) :
             /\ \A x \in Range(waiters) : w.by <= x.by
             /\ NewRound.sync_type = w.sync_type
        /\ \A w \in Range(waiters) : w.sync_type # NewRound.sync_type => w \in Stayed
        /\ Len(waiters') = Cardinality(Stayed)
        /\ \A i, j \in 1..Len(waiters') : i < j => waiters'[i].by < waiters'[j].by
    ]_vars

\* Two waiters were deferred by a batch of another type, and the round of
\* the earlier of them is published next.
C5_Witness ==
    /\ Len(rounds) = 3
    /\ rounds[3].sync_type # rounds[2].sync_type
    /\ Len(rounds[3].batch) >= 2
    /\ rounds[3].batch[1].by > rounds[2].batch[1].by

\* C6. Force propagation: the force flag of the SyncRequest published for a
\* batch is the OR of the force flags of all the waiters that left the queue
\* with the batch, with or without a sender.
C6_ForcePropagation ==
    [][Formed =>
        /\ NewRound.force = (\E w \in Left : w.force)
        /\ \A req \in pending' \ pending : req.force = (\E w \in Left : w.force)
    ]_vars

\* A forced request was published for a batch in which only a
\* fire-and-forget request set force, next to a waiting caller that did not.
C6_Witness ==
    \E req \in pending :
        /\ req.force
        /\ \E i, j \in 1..Len(rounds[req.round].batch) :
             LET b == rounds[req.round].batch
             IN  /\ b[i].sender = NoTask /\ b[i].force
                 /\ b[j].sender # NoTask /\ ~b[j].force
        /\ \A w \in Range(rounds[req.round].batch) : w.sender # NoTask => ~w.force

\* C11. trigger_sync_no_wait returns without waiting and its request is
\* served: the call is never left at rx.await, a fire-and-forget request
\* leaves the queue only in a batch of its own type, and while one is queued
\* a task is in the run loop to publish the round of its type.
C11_NoWaitServed ==
    /\ \A t \in Tasks : call[t].kind = "no_wait" => pc[t] \in {"loop", "await_reply", "done"}
    /\ \A k \in Rounds : \A w \in Range(rounds[k].batch) :
            w.sender = NoTask => w.sync_type = rounds[k].sync_type
    /\ \A i \in 1..Len(waiters) : waiters[i].sender = NoTask => Drivers # {}

\* The transfer that was converted, and what the conversion returned.
Converted == transfer # None /\ payment # None
Input == transfer[1]
Output == payment[1]

\* C12. Swap rejection: the conversion of a transfer whose kind is
\* CounterSwap, CounterSwapV3, Swap or PrimarySwapV3 returns an error, never
\* a Payment, whatever its other fields.
C12_SwapRejection ==
    (/\ Converted
     /\ Input.transfer_type \in {"CounterSwap", "CounterSwapV3", "Swap", "PrimarySwapV3"})
        => /\ ~Output.ok
           /\ Output.error = "Swap-related transfers are not considered payments"

\* A completed PrimarySwapV3 transfer with a well-formed Lightning send
\* request and an HTLC record was rejected.
C12_Witness ==
    /\ Converted
    /\ Input.transfer_type = "PrimarySwapV3"
    /\ Input.status = "Completed"
    /\ Input.is_ssp_transfer
    /\ Input.user_request # None
    /\ Input.user_request[1].variant = "LightningSendRequest"
    /\ Input.user_request[1].encoded_invoice = "lnbc1valid"
    /\ Input.htlc_preimage_request # None
    /\ ~Output.ok

\* The transfer status reads as completed (lines 238-243).
ReadsCompleted(t) ==
    \/ t.status = "Completed"
    \/ t.status = "SenderKeyTweaked" /\ t.direction = "Outgoing"

\* C13. Completed-without-details downgrade: a transfer of kind
\* cooperative-exit, preimage-swap or UTXO-swap whose status reads as
\* completed and which has no user request, no HTLC record and no Spark
\* invoice is converted to a Payment with status Pending.
C13_CompletedWithoutDetails ==
    (/\ Converted
     /\ Input.transfer_type \in {"CooperativeExit", "PreimageSwap", "UtxoSwap"}
     /\ ReadsCompleted(Input)
     /\ Input.user_request = None
     /\ Input.htlc_preimage_request = None
     /\ Input.spark_invoice = None)
        => /\ Output.ok
           /\ Output.value.status = "Pending"

\* C14. Preimage stickiness: a call of reconcile_htlc_preimage keeps a
\* preimage that is present and the status PreimageShared; it changes
\* nothing in details that are PreimageShared with a preimage, whatever the
\* fallback; and reconciling its result again with any fallback that could
\* have given it changes nothing.
C14_PreimageStickiness ==
    [][(details # None /\ details' # None) =>
        LET d == details[1]
            e == details'[1]
        IN  /\ is_some(d.preimage) => e.preimage = d.preimage
            /\ d.status = "PreimageShared" => e.status = "PreimageShared"
            /\ (d.status = "PreimageShared" /\ is_some(d.preimage)) => e = d
            /\ \A p \in Fallbacks :
                  e = reconcile_htlc_preimage(d, p) =>
                      reconcile_htlc_preimage(e, p) = e
    ]_vars

\* Details that were reconciled with a preimage are PreimageShared with it
\* and a later fallback of another preimage or of None has not changed them.
C14_Witness ==
    /\ details # None
    /\ details[1].status = "PreimageShared"
    /\ details[1].preimage = Some("ab")
    /\ payment # None
    /\ payment[1].ok
    /\ payment[1].value.details[1].htlc_details = details[1]
    /\ lightning[1].payment.payment_preimage = Some("cd")

\* An SSP transfer, no swap, with a Lightning send or receive request whose
\* invoice is well formed, and without an HTLC record.
LightningWithoutHtlc(t) ==
    /\ t.is_ssp_transfer
    /\ t.transfer_type \notin {"CounterSwap", "CounterSwapV3", "Swap", "PrimarySwapV3"}
    /\ t.htlc_preimage_request = None
    /\ t.user_request # None
    /\ \/ /\ t.user_request[1].variant = "LightningSendRequest"
          /\ t.user_request[1].encoded_invoice = "lnbc1valid"
       \/ /\ t.user_request[1].variant = "LightningReceiveRequest"
          /\ t.user_request[1].invoice.encoded_invoice = "lnbc1valid"

\* C15. Legacy cutoff boundary: for such a transfer the conversion returns
\* the missing-HTLC error when created_at is the cutoff, 1_769_904_000 s
\* after the epoch, or later, and a Payment with Lightning details when
\* created_at is one second earlier.
C15_LegacyCutoff ==
    (Converted /\ LightningWithoutHtlc(Input)) =>
        /\ (Input.created_at # None /\ Input.created_at[1] >= 1769904000) =>
                /\ ~Output.ok
                /\ Output.error = "Missing HTLC details for Lightning payment transfer"
        /\ Input.created_at = Some(1769904000 - 1) =>
                /\ Output.ok
                /\ Output.value.details # None
                /\ Output.value.details[1].variant = "Lightning"

\* A Lightning send created exactly at the cutoff was refused.
C15_Witness ==
    /\ Converted
    /\ LightningWithoutHtlc(Input)
    /\ Input.user_request[1].variant = "LightningSendRequest"
    /\ Input.created_at = Some(1769904000)
    /\ ~Output.ok

\* The transfer has a user request of variant v.
Requests(t, v) == t.user_request # None /\ t.user_request[1].variant = v

\* The satoshis an amount declares, 0 when it declares none.
Declared(a) == IF a.original_unit = "SATOSHI" THEN a.original_value ELSE 0

\* C16. Lightning send: the Payment of a transfer with a Lightning-send
\* request has fees = declared fee (0 if absent) and amount = total - fees
\* (0 when the fee exceeds the total); its status is Completed when the
\* request carries a preimage, whatever the transfer status, and follows the
\* transfer status otherwise.
C16_LightningSend ==
    (Converted /\ Requests(Input, "LightningSendRequest") /\ Output.ok) =>
        LET r == Input.user_request[1]
            fee == Declared(r.fee)
        IN  /\ Output.value.fees = fee
            /\ fee <= Input.total_value_sat =>
                    Output.value.amount = Input.total_value_sat - fee
            /\ fee > Input.total_value_sat => Output.value.amount = 0
            /\ r.lightning_send_payment_preimage # None =>
                    Output.value.status = "Completed"
            /\ r.lightning_send_payment_preimage = None =>
                    Output.value.status =
                        IF ReadsCompleted(Input) THEN "Completed"
                        ELSE IF Input.status \in {"Expired", "Returned"} THEN "Failed"
                        ELSE "Pending"

\* The documented scenarios: total 10_000, fee 100, pending, no preimage
\* gives Pending, 9_900 and 100.
C16_Witness ==
    /\ Converted
    /\ Requests(Input, "LightningSendRequest")
    /\ Input.total_value_sat = 10000
    /\ Input.user_request[1].fee = Satoshis(100)
    /\ Input.user_request[1].lightning_send_payment_preimage = None
    /\ Input.status = "SenderInitiated"
    /\ Output.ok
    /\ Output.value.status = "Pending"
    /\ Output.value.amount = 9900
    /\ Output.value.fees = 100

\* C17. Cooperative exit: the Payment of a transfer with a cooperative-exit
\* request has fees = declared fee + L1 broadcast fee (at most U64_MAX) and
\* amount = total - fees (0 when the fees exceed the total).
C17_CooperativeExit ==
    (Converted /\ Requests(Input, "CoopExitRequest") /\ Output.ok) =>
        LET r == Input.user_request[1]
            sum == Declared(r.fee) + Declared(r.l1_broadcast_fee)
            fees == IF sum > U64_MAX THEN U64_MAX ELSE sum
        IN  /\ Output.value.fees = fees
            /\ fees <= Input.total_value_sat =>
                    Output.value.amount = Input.total_value_sat - fees
            /\ fees > Input.total_value_sat => Output.value.amount = 0

\* The documented scenario: total 50_000, fee 200, L1 fee 150 gives amount
\* 49_650 and fees 350.
C17_Witness ==
    /\ Converted
    /\ Requests(Input, "CoopExitRequest")
    /\ Input.total_value_sat = 50000
    /\ Input.user_request[1].fee = Satoshis(200)
    /\ Input.user_request[1].l1_broadcast_fee = Satoshis(150)
    /\ Output.ok
    /\ Output.value.amount = 49650
    /\ Output.value.fees = 350

\* C18. No wraparound: the amount of a Payment is between 0 and the
\* transfer's total and its fees are a u64; for a Lightning send and a
\* cooperative exit the amount is total - fees when fees <= total and 0
\* otherwise; the fee of a claimed deposit is deposit - credit, 0 when the
\* credit is at least the deposit.
C18_NoWraparound ==
    (Converted /\ Output.ok) =>
        /\ Output.value.amount \in 0..Input.total_value_sat
        /\ Output.value.fees \in 0..U64_MAX
        /\ (Requests(Input, "LightningSendRequest") \/ Requests(Input, "CoopExitRequest")) =>
                Output.value.amount =
                    IF Output.value.fees <= Input.total_value_sat
                    THEN Input.total_value_sat - Output.value.fees
                    ELSE 0
        /\ Requests(Input, "ClaimStaticDeposit") =>
                LET deposit == Declared(Input.user_request[1].deposit_amount)
                    credit == Declared(Input.user_request[1].credit_amount)
                IN  Output.value.fees = IF credit >= deposit THEN 0 ELSE deposit - credit

\* A Lightning send whose fee exceeds the total has amount 0.
C18_Witness ==
    /\ Converted
    /\ Output.ok
    /\ Requests(Input, "LightningSendRequest")
    /\ Declared(Input.user_request[1].fee) > Input.total_value_sat
    /\ Input.total_value_sat > 0
    /\ Output.value.amount = 0

SendTransfer(r, p, st) ==
    [id |-> "t1",
     transfer_type |-> "PreimageSwap",
     direction |-> "Outgoing",
     status |-> st,
     is_ssp_transfer |-> TRUE,
     user_request |-> Some(LightningSendRequest(p.encoded_invoice,
                              Satoshis(p.fee_sat), p.payment_preimage)),
     htlc_preimage_request |-> Some(r),
     spark_invoice |-> None,
     created_at |-> None,
     expiry_time |-> None,
     total_value_sat |-> 10000]

\* The HTLC records that convert to the details d.
RecordsOf(d) ==
    {r \in ValidPreimageRequests : SparkHtlcDetails_try_from(r).value = d}

\* C20. Both entry points apply the same preimage rules: from_lightning
\* gives, for the details passed and the preimage of the send result, the
\* HTLC details the transfer path gives for an HTLC record of these details
\* and this fallback preimage, it fails on the invoices the transfer path
\* fails on, and on both paths a send result with a preimage is Completed
\* whatever status was reported.
C20_SamePreimageRules ==
    [][(payment' # payment) =>
        LET p == lightning[1].payment
            direct == payment'[1]
        IN  /\ RecordsOf(details[1]) # {}
            /\ \A r \in RecordsOf(details[1]), st \in TransferStatuses :
                  LET generic == Payment_try_from(SendTransfer(r, p, st))
                  IN  /\ generic.ok = direct.ok
                      /\ direct.ok =>
                            /\ direct.value.details[1].htlc_details
                                  = generic.value.details[1].htlc_details
                            /\ is_some(p.payment_preimage) =>
                                  /\ direct.value.status = "Completed"
                                  /\ generic.value.status = "Completed"
    ]_vars

\* A send reported as failed whose result carries a preimage was converted
\* with details that had none: the payment is Completed and its HTLC
\* details are PreimageShared with that preimage.
C20_Witness ==
    /\ payment # None
    /\ payment[1].ok
    /\ lightning[1].payment.status = "LightningPaymentFailed"
    /\ lightning[1].payment.payment_preimage = Some("cd")
    /\ details[1].preimage = None
    /\ details[1].status = "WaitingForPreimage"
    /\ payment[1].value.status = "Completed"
    /\ payment[1].value.details[1].htlc_details.preimage = Some("cd")
    /\ payment[1].value.details[1].htlc_details.status = "PreimageShared"

\* C21. Claim concurrency bound: at no time do more than
\* max_concurrent_claims claim operations run, for any configured value of
\* at least 1 and any number of pending inbound transfers; the claims that
\* run are those that hold a slot.
C21_ClaimBound ==
    /\ max_concurrent_claims >= 1
    /\ Cardinality(Claiming) <= max_concurrent_claims
    /\ Cardinality(Claiming) + slots = max_concurrent_claims

\* All slots are taken while another transfer is visible and waits.
C21_Witness ==
    /\ Cardinality(Claiming) = max_concurrent_claims
    /\ slots = 0
    /\ \E x \in Transfers : claim[x] = "visible"

\* A step that is a call of get_lightning_address.
GetStep ==
    /\ last'.op = "get"
    /\ server' = server
    /\ <<cache, last>>' # <<cache, last>>

\* C22. The lightning address cache is tri-state and drives recovery: it
\* reads None until it is first populated and never again after, Some(None)
\* after a delete and Some(Some(info)) after a save; get_lightning_address
\* contacts the server exactly when the cache reads None and a server
\* client is configured; a recovery that succeeded has stored the address
\* or the marker of no address, and a call that finds the cache populated
\* answers from it and leaves it as it is, so that no second recovery is
\* ever made.
C22_TriStateCache ==
    [][/\ fetch_lightning_address(cache) # None =>
             fetch_lightning_address(cache') # None
       /\ (last'.op = "register" /\ last'.result.ok /\ last' # last) =>
             fetch_lightning_address(cache') = Some(last'.result.value)
       /\ (last'.op = "delete" /\ last'.contacted /\ last'.result.ok
              /\ last' # last) =>
             fetch_lightning_address(cache') = Some(None)
       /\ GetStep =>
             /\ last'.contacted <=>
                   (fetch_lightning_address(cache) = None /\ lnurl_server_client)
             /\ (last'.contacted /\ last'.result.ok) =>
                   fetch_lightning_address(cache') = Some(last'.result.value)
             /\ ~last'.contacted =>
                   /\ last'.result = Ok(flatten(fetch_lightning_address(cache)))
                   /\ cache' = cache
       /\ last'.recoveries <= 1
    ]_vars

\* A recovery found no address on the server, and the call of
\* get_lightning_address after it answered None from the cache while the
\* server by then held an address.
C22_Witness ==
    /\ lnurl_server_client
    /\ fetch_lightning_address(cache) = Some(None)
    /\ server # None
    /\ last.op = "get"
    /\ ~last.contacted
    /\ last.result = Ok(None)
    /\ last.recoveries = 1

\* A step in which task t registers its waiter.
Registers(t) == ~Registered(t) /\ Registered(t)'

\* Every request registered so far has been served: none is queued, no
\* round is in flight or about to be formed.
Served == waiters = <<>> /\ pending = {} /\ Drivers = {}

\* C23. Coordinator state machine: the coordinator leaves Idle
\* (sync_running false) on a request, whose caller enters the run loop, and
\* on nothing else; a request made while it is Running starts no run loop;
\* it stays Running while waiters are queued, and a run loop that finds
\* waiters queued forms the next batch; it returns to Idle exactly when the
\* run loop finds the queue empty; Idle has an empty queue and no run loop;
\* once every request is served the coordinator is Idle, and a later
\* request starts a new run loop.
C23_StateMachine ==
    /\ [][/\ (~sync_running /\ sync_running') =>
                \E t \in Tasks : Registers(t) /\ pc'[t] = "loop"
          /\ \A t \in Tasks : Registers(t) =>
                /\ sync_running'
                /\ (pc'[t] = "loop") <=> ~sync_running
                /\ Served => pc'[t] = "loop"
          /\ (sync_running /\ waiters # <<>>) => sync_running'
          /\ (sync_running /\ ~sync_running') =>
                /\ waiters = <<>> /\ waiters' = <<>>
                /\ \E t \in Tasks : pc[t] = "loop" /\ pc'[t] \in {"rx_await", "done"}
          /\ \A t \in Tasks :
                (pc[t] = "loop" /\ pc'[t] \in {"await_reply", "rx_await", "done"}) =>
                    IF waiters # <<>> THEN Formed /\ sync_running'
                    ELSE ~sync_running' /\ ~Formed
          ]_vars
    /\ [](~sync_running => (waiters = <<>> /\ Drivers = {}))
    /\ [](Served => ~sync_running)

\* C24. The lock is never held while a round awaits its reply: in every
\* state where a round is in flight the mutex is free, and a call that has
\* not registered yet can register in that state, with or without a sender.
C24_LockFreeInFlight ==
    InFlight =>
        /\ lock = NoTask
        /\ \A t \in Tasks : pc[t] = "idle" =>
              /\ ENABLED trigger_sync_and_wait(t, "A", FALSE)
              /\ ENABLED trigger_sync_no_wait(t, "B", FALSE)

\* A call registered while a round was in flight, and that round is still
\* in flight: the call waits in the queue for the next round.
C24_Witness ==
    \E t \in Tasks :
        /\ InFlight
        /\ midRound[t]
        /\ regAt[t] = Len(rounds)
        /\ pc[t] = "rx_await"
        /\ \E i \in 1..Len(waiters) : waiters[i].sender = t

\* C25. No retry inside the coordinator: the waiters of a batch are in no
\* later batch and are not queued again, so a batch is published at most
\* once; the outcome of a round, once set, stays; an unanswered request is
\* that of a round without an outcome; each batch formed is made of queued
\* waiters and gets its own publish attempt; and a value a caller got from
\* a round is the outcome of the round its own batch was published in.
C25_NoRetry ==
    /\ [](\A k, j \in Rounds : k < j => Members(k) \cap Members(j) = {})
    /\ [](\A k \in Rounds : \A i \in 1..Len(waiters) :
              waiters[i].by \notin Members(k))
    /\ [](\A req \in pending :
              /\ rounds[req.round].outcome = "none"
              /\ \A other \in pending : other.round = req.round => other = req)
    /\ [](\A t \in Tasks :
              ret[t].val \in (SubscriberReplies \cup {ErrPublish, ErrReplyClosed}) =>
                  /\ t \in Members(ret[t].round)
                  /\ ret[t].val = rounds[ret[t].round].outcome)
    /\ [][/\ \A k \in Rounds :
                 rounds[k].outcome # "none" => rounds'[k] = rounds[k]
          /\ Formed =>
                 /\ Len(rounds') = Len(rounds) + 1
                 /\ NewRound.outcome \in {"none", ErrPublish}
                 /\ NewRound.batch # <<>>
                 /\ Range(NewRound.batch) \subseteq Range(waiters)
                 /\ Cardinality(pending' \ pending) =
                       IF NewRound.outcome = "none" THEN 1 ELSE 0
         ]_vars

\* The first round failed and its caller returned the error; the run loop
\* went on to the batch of the caller queued meanwhile, whose round was
\* answered Ok.
C25_Witness ==
    /\ Len(rounds) = 2
    /\ rounds[1].outcome \in {ErrPublish, ErrReplyClosed, "ErrSync"}
    /\ rounds[2].outcome = "Ok"
    /\ ret[1] = [val |-> rounds[1].outcome, round |-> 1]
    /\ ret[2] = [val |-> "Ok", round |-> 2]

\* C26. No stranded waiter: in every state in which the mutex is free, a
\* queue that is not empty implies sync_running, and, as long as no driving
\* future was dropped, sync_running implies that exactly one task executes
\* the run loop or is about to enter it.
C26_NoStrandedWaiter ==
    lock = NoTask =>
        /\ waiters # <<>> => sync_running
        /\ ~droppedDriver => (sync_running => Cardinality(Drivers) = 1)

\* A waiter is queued behind the round in flight of the one driver, after
\* a future that did not drive was dropped.
C26_Witness ==
    /\ lock = NoTask
    /\ waiters # <<>>
    /\ InFlight
    /\ cancels > 0
    /\ ~droppedDriver
    /\ Cardinality(Drivers) = 1

\* A round of the type task t asked for that took the waiter of t.
CoveredBy(t, k) == t \in Members(k) /\ rounds[k].sync_type = call[t].sync_type

\* C27 as stated. Liveness: every call of trigger_sync_and_wait eventually
\* returns, and every fire-and-forget request is eventually covered by a
\* round of its type whose SyncRequest was published.
C27_Liveness ==
    /\ \A t \in Tasks : (Registered(t) /\ Waiting(t)) ~> (pc[t] = "done")
    /\ \A t \in Tasks :
          (Registered(t) /\ ~Waiting(t)) ~>
              (\E k \in Rounds : CoveredBy(t, k) /\ rounds[k].outcome # ErrPublish)

\* C27 as amended. Liveness: every call of trigger_sync_and_wait eventually
\* returns, and every fire-and-forget request is eventually taken into a
\* batch of its type; the SyncRequest of a batch is published when the
\* broadcast channel has a receiver at that moment, and with no receiver
\* the publication fails and nothing is published for the batch.
C27_LivenessOfBatches ==
    /\ \A t \in Tasks : (Registered(t) /\ Waiting(t)) ~> (pc[t] = "done")
    /\ \A t \in Tasks :
          (Registered(t) /\ ~Waiting(t)) ~> (\E k \in Rounds : CoveredBy(t, k))
    /\ [][Formed =>
            IF subscribed
            THEN /\ NewRound.outcome = "none"
                 /\ \E req \in pending' \ pending :
                       /\ req.round = Len(rounds')
                       /\ req.sync_type = NewRound.sync_type
            ELSE /\ NewRound.outcome = ErrPublish
                 /\ pending' = pending
         ]_vars

\* A waiting call returned after a round it shared with nobody, and the
\* fire-and-forget request made meanwhile was covered by the next round,
\* which was published.
C27_Witness ==
    /\ Len(rounds) = 2
    /\ Waiting(1) /\ pc[1] = "done"
    /\ call[2].kind = "no_wait"
    /\ CoveredBy(2, 2)
    /\ rounds[2].outcome = "Ok"

\* A step that sets the outcome of round k.
Completes(k) ==
    IF k \in Rounds THEN rounds[k].outcome = "none" /\ rounds'[k].outcome # "none"
    ELSE k = Len(rounds') /\ rounds'[k].outcome # "none"

\* C28. The caller of trigger_sync_and_wait that drives the run loop
\* returns only in the step in which the loop finds the queue empty, with
\* the value of its own batch, which it held since that batch's round
\* completed; when its own round completes it stays in the loop.  A caller
\* that does not drive returns in the step in which the round of its batch
\* completes.
C28_DriverReturnsLast ==
    [][\A t \in Tasks : Waiting(t) =>
        /\ (pc[t] \in {"loop", "await_reply"} /\ pc'[t] = "done") =>
              /\ pc[t] = "loop"
              /\ waiters = <<>>
              /\ ~sync_running'
              /\ rx[t] # NoRx
              /\ ret'[t] = rx[t]
              /\ t \in Members(ret'[t].round)
        /\ \A k \in 1..Len(rounds') :
              (Completes(k) /\ t \in {w.by : w \in Range(rounds'[k].batch)}) =>
                  /\ pc[t] \in {"loop", "await_reply"} =>
                        /\ pc'[t] = "loop"
                        /\ ret'[t] = NoRet
                        /\ rx'[t] = [val |-> rounds'[k].outcome, round |-> k]
                  /\ pc[t] = "rx_await" =>
                        /\ pc'[t] = "done"
                        /\ ret'[t] = [val |-> rounds'[k].outcome, round |-> k]
    ]_vars

\* The driver holds the value of round 1 and is still in the loop after it
\* has run round 2 for the other caller, who registered during round 1 and
\* has returned from round 2 already.
C28_Witness ==
    /\ Waiting(1) /\ Waiting(2)
    /\ regAt[1] = 0 /\ midRound[2]
    /\ Len(rounds) = 2
    /\ pc[2] = "done" /\ ret[2].round = 2
    /\ pc[1] = "loop" /\ rx[1].round = 1
    /\ waiters = <<>>

\* ---------------------------------------------------------------- C29
\* The waiters that registered while round 1 was in flight: those still
\* queued and those of the batches formed since.  by numbers them in the
\* order they registered, which is the order line 93 pushed them.
Arrivals ==
    Range(waiters) \cup UNION {Range(rounds[r].batch) : r \in 2..Len(rounds)}

\* The sync types other than its own that had waiters queued ahead of e
\* when e registered.
OtherTypesAhead(e) ==
    {f.sync_type : f \in {g \in Arrivals : g.by < e.by}} \ {e.sync_type}

\* C29: a waiter that registered when k distinct sync types other than its
\* own had waiters queued ahead of it is in one of the next k + 1 batches
\* the run loop forms, whatever registered after it: once k + 1 batches
\* have been formed since, one of them holds the waiter.
C29_NoStarvation ==
    \A e \in Arrivals :
        LET k == Cardinality(OtherTypesAhead(e))
        IN  Len(rounds) >= 1 + k + 1
                => \E r \in 2..(k + 2) : e \in Range(rounds[r].batch)

\* A waiter registered behind a waiter of the other type, a further waiter
\* of that other type registered after it, and the second batch formed
\* since holds the first of them, not the first batch.
C29_Witness ==
    /\ Len(rounds) >= 3
    /\ \E e \in Range(rounds[3].batch) :
          /\ Cardinality(OtherTypesAhead(e)) = 1
          /\ \E g \in Range(rounds[2].batch) :
                g.by > e.by /\ g.sync_type # e.sync_type

\* ---------------------------------------------------------------- C30
\* The later lines that change the status: a Lightning send request with a
\* preimage (lines 252-254), and details that are absent for a transfer
\* type whose details may come later (lines 280-292).
StatusOverridden(t, p) ==
    \/ /\ is_some(t.user_request)
       /\ t.user_request[1].variant = "LightningSendRequest"
       /\ is_some(t.user_request[1].lightning_send_payment_preimage)
    \/ /\ is_none(p.details)
       /\ t.transfer_type \in AsyncDetailsKinds

\* C30: the status a payment starts with comes from the status of the
\* transfer.  Completed gives Completed; SenderKeyTweaked gives Completed
\* when the direction is Outgoing and Pending when it is Incoming; Expired
\* and Returned give Failed; every other status gives Pending.  It is the
\* status of the payment wherever no later line changes it.
C30_InitialStatus ==
    (payment # None /\ payment[1].ok
        /\ ~StatusOverridden(transfer[1], payment[1].value)) =>
        LET t == transfer[1]
            p == payment[1].value
        IN  /\ t.status = "Completed" => p.status = "Completed"
            /\ (t.status = "SenderKeyTweaked" /\ t.direction = "Outgoing")
                    => p.status = "Completed"
            /\ (t.status = "SenderKeyTweaked" /\ t.direction = "Incoming")
                    => p.status = "Pending"
            /\ t.status \in {"Expired", "Returned"} => p.status = "Failed"
            /\ t.status \notin {"Completed", "SenderKeyTweaked", "Expired",
                                "Returned"} => p.status = "Pending"

\* An incoming transfer in SenderKeyTweaked was converted to a pending
\* payment, and no later line had a say.
C30_Witness ==
    /\ payment # None /\ payment[1].ok
    /\ ~StatusOverridden(transfer[1], payment[1].value)
    /\ transfer[1].status = "SenderKeyTweaked"
    /\ transfer[1].direction = "Incoming"
    /\ payment[1].value.status = "Pending"

\* ---------------------------------------------------------------- C31
\* C31. Claim static deposit: the Payment of a transfer with a
\* claim-static-deposit request has fees = deposit amount - credited
\* amount, 0 when the credit is at least the deposit, and amount =
\* total_value_sat, which the fee does not reduce.
C31_ClaimStaticDeposit ==
    (Converted /\ Requests(Input, "ClaimStaticDeposit") /\ Output.ok) =>
        LET deposit == Declared(Input.user_request[1].deposit_amount)
            credit == Declared(Input.user_request[1].credit_amount)
        IN  /\ credit >= deposit => Output.value.fees = 0
            /\ credit < deposit => Output.value.fees = deposit - credit
            /\ Output.value.amount = Input.total_value_sat

\* A deposit of 10_000 credited with 200 on a transfer of 10_000: the fee is
\* 9_800 and the amount stays 10_000.
C31_Witness ==
    /\ Converted
    /\ Requests(Input, "ClaimStaticDeposit")
    /\ Input.user_request[1].deposit_amount = Satoshis(10000)
    /\ Input.user_request[1].credit_amount = Satoshis(200)
    /\ Input.total_value_sat = 10000
    /\ Output.ok
    /\ Output.value.fees = 9800
    /\ Output.value.amount = 10000

\* ---------------------------------------------------------------- C32
\* C32. Details-absent invariant: a Payment the conversion produces with no
\* details has the transfer's total_value_sat as its amount, and when the
\* transfer is a cooperative exit, a preimage swap or a UTXO swap its status
\* is not Completed.
C32_DetailsAbsent ==
    (Converted /\ Output.ok /\ Output.value.details = None) =>
        /\ Output.value.amount = Input.total_value_sat
        /\ Input.transfer_type \in {"CooperativeExit", "PreimageSwap", "UtxoSwap"}
                => Output.value.status # "Completed"

\* A completed UTXO swap of the SSP without a user request became a pending
\* payment without details, of the transfer's total.
C32_Witness ==
    /\ Converted
    /\ Output.ok
    /\ Output.value.details = None
    /\ Input.transfer_type = "UtxoSwap"
    /\ Input.status = "Completed"
    /\ Output.value.status = "Pending"
    /\ Output.value.amount = Input.total_value_sat

\* ---------------------------------------------------------------- C33
\* The HTLC details of a Payment: those of Lightning details, those of
\* Spark details when they have some, None otherwise.
HtlcOf(p) ==
    IF p.details = None THEN None
    ELSE IF p.details[1].variant = "Lightning" THEN Some(p.details[1].htlc_details)
    ELSE IF p.details[1].variant = "Spark" THEN p.details[1].htlc_details
    ELSE None

\* The preimage the user request supplies, None when it supplies none or
\* the conversion does not consult it.
FallbackOf(t) ==
    IF ~t.is_ssp_transfer \/ t.user_request = None THEN None
    ELSE IF t.user_request[1].variant = "LightningSendRequest"
    THEN t.user_request[1].lightning_send_payment_preimage
    ELSE IF t.user_request[1].variant = "LightningReceiveRequest"
    THEN t.user_request[1].lightning_receive_payment_preimage
    ELSE None

\* C33. HTLC resolution with a record: when the transfer has an HTLC
\* PreimageRequest, the HTLC status of the Payment is the image of the
\* record's status, except that when the record has no preimage and the
\* user request supplies one, that preimage is adopted and the status is
\* PreimageShared; a preimage of the record is always the one reported.
C33_HtlcWithRecord ==
    (Converted /\ Output.ok /\ Input.htlc_preimage_request # None
        /\ HtlcOf(Output.value) # None) =>
        LET rec == Input.htlc_preimage_request[1]
            h == HtlcOf(Output.value)[1]
            adopted == rec.preimage = None /\ FallbackOf(Input) # None
        IN  /\ rec.preimage # None => h.preimage = Some(encode_hex(rec.preimage[1]))
            /\ adopted => (h.preimage = FallbackOf(Input) /\ h.status = "PreimageShared")
            /\ ~adopted => h.status = rec.status

\* The same, for the records whose status agrees with their preimage: a
\* record that has a preimage has the status PreimageShared.
C33_HtlcWithSoundRecord ==
    (Converted /\ Output.ok /\ Input.htlc_preimage_request # None
        /\ HtlcOf(Output.value) # None
        /\ (Input.htlc_preimage_request[1].preimage # None
                => Input.htlc_preimage_request[1].status = "PreimageShared")) =>
        LET rec == Input.htlc_preimage_request[1]
            h == HtlcOf(Output.value)[1]
            adopted == rec.preimage = None /\ FallbackOf(Input) # None
        IN  /\ rec.preimage # None => h.preimage = Some(encode_hex(rec.preimage[1]))
            /\ adopted => (h.preimage = FallbackOf(Input) /\ h.status = "PreimageShared")
            /\ ~adopted => h.status = rec.status

\* ---------------------------------------------------------------- C34
\* The payment hash the user request supplies: the field of the invoice of
\* a receive request, the hash parsed from the invoice of a send request.
FallbackHashOf(r) ==
    IF r.variant = "LightningReceiveRequest" THEN r.invoice.payment_hash
    ELSE parse_invoice(r.encoded_invoice)[1].payment_hash

\* C34. Legacy derivation result: when the HTLC details are derived from the
\* SSP request (no HTLC record, old transfer), the HTLC status depends only
\* on the transfer status (Completed gives PreimageShared, Expired or
\* Returned gives Returned, anything else WaitingForPreimage), the preimage
\* is the fallback preimage unchanged, the payment hash is the fallback
\* hash, and the expiry is the transfer's expiry time in seconds, 0 when it
\* is unset or before the epoch.
C34_LegacyResult ==
    (Converted /\ LightningWithoutHtlc(Input) /\ Output.ok) =>
        /\ HtlcOf(Output.value) # None
        /\ LET h == HtlcOf(Output.value)[1]
           IN  /\ Input.status = "Completed" => h.status = "PreimageShared"
               /\ Input.status \in {"Expired", "Returned"} => h.status = "Returned"
               /\ Input.status \notin {"Completed", "Expired", "Returned"}
                      => h.status = "WaitingForPreimage"
               /\ h.preimage = FallbackOf(Input)
               /\ h.payment_hash = FallbackHashOf(Input.user_request[1])
               /\ Input.expiry_time = None => h.expiry_time = 0
               /\ (Input.expiry_time # None /\ Input.expiry_time[1] < 0)
                      => h.expiry_time = 0
               /\ (Input.expiry_time # None /\ Input.expiry_time[1] >= 0)
                      => h.expiry_time = Input.expiry_time[1]

\* An old receive whose expiry time is before the epoch and whose request
\* supplies a preimage and a payment hash of its own was derived while the
\* transfer was not completed: the preimage is there, the status waits.
C34_Witness ==
    /\ Converted
    /\ LightningWithoutHtlc(Input)
    /\ Output.ok
    /\ Input.expiry_time = Some(-60)
    /\ Input.status = "SenderInitiated"
    /\ Input.user_request[1].variant = "LightningReceiveRequest"
    /\ Input.user_request[1].invoice.payment_hash = "d4"
    /\ HtlcOf(Output.value) =
          Some([payment_hash |-> "d4", preimage |-> Some("cd"),
                expiry_time |-> 0, status |-> "WaitingForPreimage"])

\* ---------------------------------------------------------------- C35
\* The conversion used legacy derivation: it produced a Payment with
\* Lightning details.
LegacyDerived ==
    /\ Output.ok
    /\ HtlcOf(Output.value) # None
    /\ Output.value.details[1].variant = "Lightning"

\* C35. Legacy tolerance condition: with no HTLC record on an SSP Lightning
\* transfer, legacy derivation is used exactly when the creation time is at
\* or before the legacy cutoff or is unknown; in every other case the
\* conversion returns an error and no Payment.
C35_LegacyTolerance ==
    (Converted /\ LightningWithoutHtlc(Input)) =>
        IF Input.created_at = None \/ Input.created_at[1] <= 1769904000
        THEN LegacyDerived
        ELSE ~Output.ok

\* C35, with the boundary the code has: with no HTLC record on an SSP
\* Lightning transfer, legacy derivation is used exactly when the creation
\* time is before the legacy cutoff or is unknown; in every other case, the
\* cutoff itself included, the conversion returns the missing-HTLC error and
\* no Payment.
C35_LegacyToleranceBefore ==
    (Converted /\ LightningWithoutHtlc(Input)) =>
        IF Input.created_at = None \/ Input.created_at[1] < 1769904000
        THEN LegacyDerived
        ELSE /\ ~Output.ok
             /\ Output.error = "Missing HTLC details for Lightning payment transfer"

\* A Lightning receive of unknown creation time was derived from the SSP
\* request.
C35_Witness ==
    /\ Converted
    /\ LightningWithoutHtlc(Input)
    /\ Input.user_request[1].variant = "LightningReceiveRequest"
    /\ Input.created_at = None
    /\ LegacyDerived

\* ---------------------------------------------------------------- C36
\* C36. Method and details agree: every Payment produced from a transfer
\* with details present has the details variant of its method, Lightning
\* details only with method Lightning, Withdraw details only with Withdraw,
\* Deposit details only with Deposit, Spark details only with Spark,
\* whatever the transfer kind, the is_ssp_transfer flag and the variant of
\* the user request.
C36_MethodAndDetailsAgree ==
    (Converted /\ Output.ok /\ Output.value.details # None) =>
        Output.value.details[1].variant = Output.value.method

\* ---------------------------------------------------------------- C37
\* Handler i makes a call in this step.
HandlerCalls(i) == ncalls' = ncalls + 1 /\ hloc'[i].call_no = ncalls'

\* The pairs of a payment hash and a preimage string of the model in which
\* the string is hex and the SHA-256 of its bytes is the payment hash.
MatchingPairs ==
    {<<sha256_hex(<<171>>), <<"a", "b">>>>,
     <<sha256_hex(<<171>>), <<"A", "B">>>>,
     <<sha256_hex(<<205>>), <<"c", "d">>>>}

Matching(l) == <<l.payment_hash, l.preimage>> \in MatchingPairs

\* C37: handle_invoice_paid rejects a bad preimage without side effects:
\* when the preimage is no valid hex or its SHA-256 is not the payment hash,
\* the call returns InvalidPreimage at once, and it reads nothing from the
\* repository, writes nothing to it, queues no NewlyPaid entry and sends no
\* trigger.
C37_BadPreimageRejected ==
    [][\A i \in Handlers :
          (HandlerCalls(i) /\ ~Matching(hloc'[i])) =>
              /\ hpc'[i] = "idle"
              /\ hret'[i] \in {InvalidPreimage("could not hex-decode preimage"),
                               InvalidPreimage("preimage does not match payment hash")}
              /\ UNCHANGED <<invoices, newly_paid, triggers, reads, writes>>]_vars

\* A call with the hex preimage of another payment hash was rejected while
\* the invoice was unpaid, and the repository has not been read.
C37_Witness ==
    \E i \in Handlers :
        /\ hloc[i].payment_hash = sha256_hex(<<171>>)
        /\ hloc[i].preimage = <<"c", "d">>
        /\ hret[i] = InvalidPreimage("preimage does not match payment hash")
        /\ reads = 0
        /\ invoices[sha256_hex(<<171>>)].preimage = None

\* ---------------------------------------------------------------- C38
\* Handler i makes a call with a valid preimage for a payment hash whose
\* invoice has a stored preimage, or for a payment hash without invoice.
CallsForPaid(i) ==
    /\ HandlerCalls(i)
    /\ Matching(hloc'[i])
    /\ hloc'[i].payment_hash \in DOMAIN invoices
    /\ invoices[hloc'[i].payment_hash].preimage # None

CallsForUnknown(i) ==
    /\ HandlerCalls(i)
    /\ Matching(hloc'[i])
    /\ hloc'[i].payment_hash \notin DOMAIN invoices

\* C38: handle_invoice_paid is idempotent over sequential calls: once an
\* invoice has a stored preimage, a further call with a valid preimage for
\* its payment hash returns Ok and changes neither the stored preimage nor
\* updated_at, inserts no NewlyPaid entry and sends no trigger; a call for
\* an unknown payment hash returns Ok and changes nothing.
C38_Idempotent ==
    [][\A i \in Handlers :
          (CallsForPaid(i) \/ CallsForUnknown(i)) =>
              /\ hpc'[i] = "idle"
              /\ hret'[i] = Ok("()")
              /\ UNCHANGED <<invoices, newly_paid, triggers, writes>>]_vars

\* C38, with the failure of the read: once an invoice has a stored
\* preimage, a further call with a valid preimage for its payment hash
\* returns Ok, or the error of the repository when the read of the invoice
\* fails, and either way changes neither the stored preimage nor
\* updated_at, inserts no NewlyPaid entry and sends no trigger; the same
\* holds of a call for an unknown payment hash.
C38_IdempotentUnlessReadFails ==
    [][\A i \in Handlers :
          (CallsForPaid(i) \/ CallsForUnknown(i)) =>
              /\ hpc'[i] = "idle"
              /\ hret'[i] \in {Ok("()"), RepositoryError}
              /\ UNCHANGED <<invoices, newly_paid, triggers, writes>>]_vars

\* The invoice was paid by one call, and a later call with the other
\* spelling of the preimage returned Ok: one preimage stored, by the first
\* call, one NewlyPaid entry, one trigger.
C38_Witness ==
    \E i \in Handlers :
        /\ \A j \in Handlers : hpc[j] = "idle"
        /\ Len(writes) = 1
        /\ writes[1].preimage = <<"a", "b">>
        /\ hloc[i].call_no > writes[1].call_no
        /\ hloc[i].payment_hash = sha256_hex(<<171>>)
        /\ hloc[i].preimage = <<"A", "B">>
        /\ hret[i] = Ok("()")
        /\ invoices[sha256_hex(<<171>>)].preimage = Some(<<"a", "b">>)
        /\ invoices[sha256_hex(<<171>>)].updated_at = 1
        /\ Len(newly_paid) = 1
        /\ triggers = 1

\* ---------------------------------------------------------------- C39
\* The entries of a sequence that are for payment hash h.
ForHash(entries, h) == SelectSeq(entries, LAMBDA e : e.payment_hash = h)

\* C39: under any interleaving of concurrent handle_invoice_paid calls for
\* the same payment hash, the preimage of the invoice is written at most
\* once and at most one NewlyPaid entry is inserted for the payment hash.
C39_AtMostOnce ==
    \A h \in PaymentHashes :
        /\ Len(ForHash(writes, h)) <= 1
        /\ Len(ForHash(newly_paid, h)) <= 1

\* ---------------------------------------------------------------- C40
\* Of the calls for payment hash h that the handlers made last, the latest
\* had a valid preimage and returned Ok: whoever called for h has retried
\* until the call succeeded.
SucceededLast(h) ==
    \E i \in Handlers :
        /\ hloc[i].payment_hash = h
        /\ Matching(hloc[i])
        /\ hret[i] = Ok("()")
        /\ \A j \in Handlers :
              hloc[j].payment_hash = h => hloc[j].call_no <= hloc[i].call_no

\* C40: paid implies queued: after any sequence of handle_invoice_paid
\* calls, calls in which an operation of the repository fails and the
\* retries of their callers included, every invoice that has a stored
\* preimage has had a NewlyPaid entry inserted for its payment hash.  It
\* is stated for the moments when no call is under way and the latest call
\* for the payment hash has returned Ok.
C40_PaidImpliesQueued ==
    (\A i \in Handlers : hpc[i] = "idle") =>
        \A h \in DOMAIN invoices :
            (invoices[h].preimage # None /\ SucceededLast(h))
                => Len(ForHash(newly_paid, h)) >= 1
====
